---- MODULE Spec2Model ----
(***************************************************************************)
(* Timber asset valuation: the price-biomass reconciliation engine of      *)
(* nca-timber (crosswalk formatting, unit conversion, product             *)
(* classification, pre-merchantable price extrapolation, valuation join). *)
(*                                                                         *)
(* Conventions of the model                                               *)
(*   - a text cell (pandas object dtype) is a sequence of one-character   *)
(*     strings: '01' is <<"0","1">>;                                      *)
(*   - a numeric cell (float64) is an exact number n/d * 10^e in          *)
(*     canonical form, so that equal numbers are equal records; NaN is    *)
(*     the record with d = 0.  Floating-point rounding is not modelled.   *)
(***************************************************************************)
EXTENDS Integers, Sequences, FiniteSets, TLC

VARIABLES
    cls_code,        \* classifier harness: the size_class_code of the row
    cls_south,       \* product given by load_south_merch_biomass, or "-"
    cls_gl,          \* product given by filter_biomass_by_species, or "-"
    fips_df,         \* format_fips harness: the frame given to format_fips
    fips_out,        \* the frame format_fips returned, or NoFrame
    prices_agg,      \* South prices averaged per key, in dollars per ton
    prices_south,    \* [done, rows]: prices_agg with the cuftPrice column
    prices_premerch, \* [status, rows]: calculate_premerchantable_prices
    module,          \* the module whose functions are called
    biomass,         \* rows of the merchantable biomass table
    prices,          \* rows of the normalized stumpage price table
    price_regions,   \* [columns, rows]: the unit-to-price-region crosswalk
    runs,            \* results of the successive merge_price_biomass_data calls
    proc,            \* how process_south_data ended, or "-"
    table_south_csv, \* [written, rows]: data/processed/table_south.csv
    gl_raw, \* Great Lakes prices averaged per (species, product), dollars per cubic foot
    gl_prices, \* [status, rows]: what load_gl_stumpage_prices returns
    nproc, \* number of runs of the region orchestrator so far
    returned, \* [status, rows]: the table the last orchestrator run returned
    table_gl_csv, \* [written, rows]: data/processed/table_gl.csv
    harvest_file, \* the harvested-species file as it is on disk
    harvest_out, \* what load_south_harvested_species gave
    crosswalk, \* the price-region crosswalk as read from its file
    regions_out, \* what load_price_regions gave
    south_wide, \* the wide South price table as read
    south_norm, \* what load_south_stumpage_prices gave
    gl_series, \* the Great Lakes price series as read
    gl_out, \* what load_gl_stumpage_prices gave for the series
    size_class, \* the parts of one size-class column name
    size_parsed, \* the size-class code and range parsed from the name
    ton_cells, \* the cells of a stumpage price table of a report
    ton_parsed, \* what parse_stumpage_ton_table gave
    json_tables, \* the tables of the input JSON file
    split_out, \* the chunk files split_json_file wrote
    req_regions, \* the regions process_data loops over
    region_i, \* the position in the list of the next pass of the loop
    results, \* the results dictionary: key to the pass that stored it
    stdout, \* per pass of the loop: the region and the line printed at its end
    proc_results \* what process_data returned

vars == <<cls_code, cls_south, cls_gl, fips_df, fips_out,
          prices_agg, prices_south, prices_premerch,
          module, biomass, prices, price_regions, runs, proc, table_south_csv,
          gl_raw, gl_prices,
          nproc, returned, table_gl_csv,
          harvest_file, harvest_out,
          crosswalk, regions_out,
          south_wide, south_norm,
          gl_series, gl_out,
          size_class, size_parsed,
          ton_cells, ton_parsed,
          json_tables, split_out,
          req_regions, region_i, results, stdout, proc_results>>

-----------------------------------------------------------------------------
(* Text cells                                                              *)

DigitChars == <<"0", "1", "2", "3", "4", "5", "6", "7", "8", "9">>

\* astype(str) of a non-negative integer cell: its decimal digits
RECURSIVE ToStr(_)
ToStr(n) ==
    IF n < 10
    THEN <<DigitChars[n + 1]>>
    ELSE ToStr(n \div 10) \o <<DigitChars[(n % 10) + 1]>>

\* str.zfill(w): pad on the left with '0' up to width w, never truncate
RECURSIVE Zfill(_, _)
Zfill(s, w) ==
    IF Len(s) >= w THEN s ELSE Zfill(<<"0">> \o s, w)

\* the literal 4-character size-class code of number k: Code4(8) = '0008'
Code4(k) == Zfill(ToStr(k), 4)

-----------------------------------------------------------------------------
(* Numeric cells: n/d * 10^e with d coprime to 10, gcd(n, d) = 1 and n    *)
(* not a multiple of 10 (0 is 0/1 * 10^0).                                 *)

RECURSIVE Gcd(_, _)
Gcd(a, b) == IF b = 0 THEN a ELSE Gcd(b, a % b)

RECURSIVE Canon(_, _, _)
Canon(n, d, e) ==
    IF n = 0 THEN [n |-> 0, d |-> 1, e |-> 0]
    ELSE IF d % 2 = 0 THEN Canon(n * 5, d \div 2, e - 1)
    ELSE IF d % 5 = 0 THEN Canon(n * 2, d \div 5, e - 1)
    ELSE IF n % 10 = 0 THEN Canon(n \div 10, d, e + 1)
    ELSE LET g == Gcd(n, d) IN [n |-> n \div g, d |-> d \div g, e |-> e]

Dec(m, e) == Canon(m, 1, e)       \* the decimal m * 10^e
NaN == [n |-> 0, d |-> 0, e |-> 0]
IsNull(x) == x.d = 0

RECURSIVE Pow10(_)
Pow10(k) == IF k = 0 THEN 1 ELSE 10 * Pow10(k - 1)

\* float multiplication; NaN propagates
Mul(a, b) ==
    IF IsNull(a) \/ IsNull(b) THEN NaN
    ELSE Canon(a.n * b.n, a.d * b.d, a.e + b.e)

\* float division by a non-zero number; NaN propagates
Div(a, b) ==
    IF IsNull(a) \/ IsNull(b) THEN NaN
    ELSE Canon(a.n * b.d, a.d * b.n, a.e - b.e)

\* a < b on non-null numbers
Less(a, b) ==
    LET m == IF a.e < b.e THEN a.e ELSE b.e
    IN  a.n * b.d * Pow10(a.e - m) < b.n * a.d * Pow10(b.e - m)

-----------------------------------------------------------------------------
(* Product classification from the size-class code                        *)

\* numpy.select(condlist, choicelist, default): the choice of the first
\* condition that holds, the default when none does
NpSelect(conditions, choices, default) ==
    LET hits == {i \in 1..Len(conditions) : conditions[i]}
    IN  IF hits = {} THEN default
        ELSE choices[CHOOSE i \in hits : \A j \in hits : i <= j]

SouthPremerchCodes == {Code4(k) : k \in 1..4}
SouthPulpwoodCodes == {Code4(k) : k \in 5..11}
SouthSawtimberCodes == {Code4(k) : k \in 12..21}

\* a fencepost slip in the lists: 0012 is listed under Pulpwood too
SouthConditionsOverlap(code) ==
    << code \in SouthPremerchCodes,
       code \in SouthPulpwoodCodes \cup {Code4(12)},
       code \in SouthSawtimberCodes >>

SouthConditions(code) ==
    << code \in SouthPremerchCodes,
       code \in SouthPulpwoodCodes,
       code \in SouthSawtimberCodes >>

SouthChoices == <<"Pre-merchantable", "Pulpwood", "Sawtimber">>

\* the lookup written with an open-ended last tier (12 and above)
SouthProductOpenEnded(code) ==
    LET k == CHOOSE i \in 0..9999 : Code4(i) = code
    IN  IF k \in 1..4 THEN "Pre-merchantable"
        ELSE IF k \in 5..11 THEN "Pulpwood"
        ELSE IF k >= 12 THEN "Sawtimber"
        ELSE "Unknown"

\* the product cut-offs of crosswalkProduct in south-pilot-tables.py:
\* 0003 to 0006 Pulpwood, 0007 to 0018 Sawtimber
SouthProductPilotCutoffs(code) ==
    NpSelect(<<code \in {Code4(k) : k \in 3..6},
               code \in {Code4(k) : k \in 7..18}>>,
             <<"Pulpwood", "Sawtimber">>, "Unknown")

\* load_south_merch_biomass: biomass_south['product']
SouthProduct(code) == NpSelect(SouthConditions(code), SouthChoices, "Unknown")

GLPulpwoodCodes == {Code4(k) : k \in 5..19}
GLSawtimberCodes == {Code4(k) : k \in 20..29}

GLConditions(code) ==
    << code \in GLPulpwoodCodes, code \in GLSawtimberCodes >>

GLChoices == <<"Pulpwood", "Sawtimber">>

\* filter_biomass_by_species: biomass_filtered['product']
GLProduct(code) == NpSelect(GLConditions(code), GLChoices, "Unknown")

ProductTiers == {"Pre-merchantable", "Pulpwood", "Sawtimber", "Unknown"}

\* size-class codes of the classifier harness: every 4-digit code up to
\* MaxSizeClass and the codes of the mock Great Lakes extract (0101..0104)
MaxSizeClass == 30
SizeClassNumbers == (0..MaxSizeClass) \cup (101..104)

SizeClassCodes == {Code4(k) : k \in SizeClassNumbers}
CodeNumber(code) == CHOOSE k \in SizeClassNumbers : Code4(k) = code

\* the tiers whose condition claims the code (the default when none does)
TiersOf(conditions, choices, default) ==
    LET hits == {i \in 1..Len(conditions) : conditions[i]}
    IN  IF hits = {} THEN {default} ELSE {choices[i] : i \in hits}

\* load_south_merch_biomass derives the product of a row
ClassifySouth ==
    /\ cls_south = "-"
    /\ cls_south' = SouthProduct(cls_code)
    /\ UNCHANGED <<cls_code, cls_gl>>

\* filter_biomass_by_species derives the product of a row
ClassifyGL ==
    /\ cls_gl = "-"
    /\ cls_gl' = GLProduct(cls_code)
    /\ UNCHANGED <<cls_code, cls_south>>

-----------------------------------------------------------------------------------------------------------------------------------------------------
(* format_fips: a frame of one row.  The frame given holds integer codes   *)
(* as read from a CSV; the frame returned holds text cells.                *)

MaxStateCd == 99
MaxCountyCd == 999

NoInput == [has_county |-> FALSE, statecd |-> 0 - 1, countycd |-> 0 - 1]
NoFrame == [by |-> "-", has_county |-> FALSE,
            statecd |-> <<>>, countycd |-> <<>>, fips |-> <<>>]

\* the county code padded to the width of the state code
FormatFipsCountyWidth2(df, by) ==
    LET st == Zfill(ToStr(df.statecd), 2)
        co == Zfill(ToStr(df.countycd), 2)
    IN  IF df.has_county
        THEN [by |-> by, has_county |-> TRUE,
              statecd |-> st, countycd |-> co, fips |-> st \o co]
        ELSE [by |-> by, has_county |-> FALSE,
              statecd |-> st, countycd |-> <<>>, fips |-> st]

\* format_fips(df, 'statecd', 'countycd', 'fips'): works on a copy of df
FormatFips(df, by) ==
    LET st == Zfill(ToStr(df.statecd), 2)
        co == Zfill(ToStr(df.countycd), 3)
    IN  IF df.has_county
        THEN [by |-> by, has_county |-> TRUE,
              statecd |-> st, countycd |-> co, fips |-> st \o co]
        ELSE [by |-> by, has_county |-> FALSE,
              statecd |-> st, countycd |-> <<>>, fips |-> st]

\* code/geo_crosswalks.py format_fips
FormatFipsGeo ==
    /\ fips_out.by = "-"
    /\ fips_out' = FormatFips(fips_df, "geo_crosswalks")
    /\ UNCHANGED fips_df

\* src/utils/county.py format_fips (the state column is present)
FormatFipsCounty ==
    /\ fips_out.by = "-"
    /\ fips_out' = FormatFips(fips_df, "county")
    /\ UNCHANGED fips_df

-----------------------------------------------------------------------------
(* South price normalizer: unit conversion and pre-merchantable prices     *)

TONS_TO_CUBIC_FEET == 40

AL == <<"0", "1">>
GA == <<"1", "3">>
R01 == <<"0", "1">>
R02 == <<"0", "2">>

\* the price multiplied by the conversion factor instead of divided
ConvertTimesFactor(rows) ==
    [i \in 1..Len(rows) |->
        [statecd |-> rows[i].statecd, stateAbbr |-> rows[i].stateAbbr,
         priceRegion |-> rows[i].priceRegion, spclass |-> rows[i].spclass,
         Product |-> rows[i].Product, price |-> rows[i].price,
         cuftPrice |-> Mul(rows[i].price, Dec(TONS_TO_CUBIC_FEET, 0))]]

\* convert_price_ton_to_cubic_feet(df, 'price', 'cuftPrice') on a frame that
\* has the price column: a copy with cuftPrice = price / TONS_TO_CUBIC_FEET
ConvertPriceTonToCubicFeet(rows) ==
    [i \in 1..Len(rows) |->
        [statecd |-> rows[i].statecd, stateAbbr |-> rows[i].stateAbbr,
         priceRegion |-> rows[i].priceRegion, spclass |-> rows[i].spclass,
         Product |-> rows[i].Product, price |-> rows[i].price,
         cuftPrice |-> Div(rows[i].price, Dec(TONS_TO_CUBIC_FEET, 0))]]

\* (1 + r) ** (Am - age) with r = 0.05 and Am = 15, for the four ages of
\* the pre-merchantable size classes, to three decimals
DiscountFactor(sizeclass) ==
    CASE sizeclass = Code4(4) -> Dec(1143, 0 - 3)     \* 1.05 ** (15 - 12.264)
      [] sizeclass = Code4(3) -> Dec(1442, 0 - 3)     \* 1.05 ** (15 - 7.5)
      [] sizeclass = Code4(2) -> Dec(1819, 0 - 3)     \* 1.05 ** (15 - 2.736)
      [] sizeclass = Code4(1) -> Dec(2007, 0 - 3)     \* 1.05 ** (15 - 0.722)

\* the pulpwood price compounded forward instead of discounted back
PremerchPriceCompounded(pine, sizeclass) == Mul(pine, DiscountFactor(sizeclass))

\* prices_south_premerch[sizeclass] = Pine / (1 + r) ** (Am - age)
PremerchPrice(pine, sizeclass) == Div(pine, DiscountFactor(sizeclass))

\* value_vars of the final melt, in melt order
PremerchSizeClasses == <<Code4(4), Code4(3), Code4(2), Code4(1)>>

\* calculate_premerchantable_prices(prices_south).  prices_south holds one
\* row per (statecd, stateAbbr, priceRegion, spclass, Product), sorted by
\* that key, so every pivot cell is the mean of one price; pivot_table
\* drops the cells that are NaN; a pivot without a Pine column makes
\* prices_south_premerch['Pine'] raise KeyError.
CalculatePremerchantablePrices(rows) ==
    LET IsPinePulp(r) == r.spclass = "Pine" /\ r.Product = "Pulpwood"
        Priced(r) == ~IsNull(r.cuftPrice)
        pivot == SelectSeq(SelectSeq(rows, IsPinePulp), Priced)
        n == Len(pivot)
    IN  IF n = 0
        THEN [status |-> "KeyError", rows |-> <<>>]
        ELSE [status |-> "ok",
              rows |-> [k \in 1..(4 * n) |->
                  LET r == pivot[((k - 1) % n) + 1]
                      sc == PremerchSizeClasses[((k - 1) \div n) + 1]
                  IN  [statecd |-> r.statecd, stateAbbr |-> r.stateAbbr,
                       priceRegion |-> r.priceRegion, sizeclass |-> sc,
                       cuftPrice |-> PremerchPrice(r.cuftPrice, sc)]]]

\* prices in dollars per ton of the harness: every half dollar up to
\* MaxTonPrice / 2, and a missing price
MaxTonPrice == 40
TonPrices == {Dec(5 * m, 0 - 1) : m \in 0..MaxTonPrice} \cup {NaN}

AggRow(st, ab, reg, sp, prod, p) ==
    [statecd |-> st, stateAbbr |-> ab, priceRegion |-> reg,
     spclass |-> sp, Product |-> prod, price |-> p]

\* load_south_stumpage_prices: the conversion to dollars per cubic foot
ConvertPrices ==
    /\ ~prices_south.done
    /\ prices_south' = [done |-> TRUE, rows |-> ConvertPriceTonToCubicFeet(prices_agg)]
    /\ UNCHANGED <<prices_agg, prices_premerch>>

\* calculate_premerchantable_prices on the normalized South prices
CalculatePremerch ==
    /\ prices_south.done
    /\ prices_premerch.status = "-"
    /\ prices_premerch' = CalculatePremerchantablePrices(prices_south.rows)
    /\ UNCHANGED <<prices_agg, prices_south>>

-----------------------------------------------------------------------------
(* Valuation join                                                          *)

\* a missing text cell (NaN in an object column)
NullText == <<"N", "a", "N">>
\* a missing cell of a name column (species class, product)
NullName == "NaN"

\* a cell of a key column with its dtype; an integer is held by its decimal
\* digits, so that Series.astype(str) keeps the digits and changes the dtype
IntCell(k) == [dtype |-> "int64", s |-> ToStr(k)]
StrCell(s) == [dtype |-> "object", s |-> s]
AsTypeStr(c) == [dtype |-> "object", s |-> c.s]

\* int(s) of a digit string, as digits
RECURSIVE StripZeros(_)
StripZeros(s) == IF Len(s) > 1 /\ Head(s) = "0" THEN StripZeros(Tail(s)) ELSE s

\* format_unit_code on one cell: astype(int), astype(str), str.zfill(2)
FormatUnitCode(c) == StrCell(Zfill(StripZeros(c.s), 2))

\* the unit code of the bounded inputs: as written by the loaders for
\* dtype "object", as read from a raw table for dtype "int64"
UnitCell(dtype, k) ==
    IF dtype = "int64" THEN IntCell(k) ELSE StrCell(Zfill(ToStr(k), 2))

DOLLARS_TO_BILLIONS == Dec(1, 0 - 9)
CUBIC_FT_TO_MEGATONNE == Dec(25713, 0 - 12)     \* 0.025713 / 1e6

\* convert_to_billions(df, 'value') on a frame that has the value column
ConvertToBillions(rows) ==
    [i \in 1..Len(rows) |->
        [rows[i] EXCEPT !.value = Mul(@, DOLLARS_TO_BILLIONS)]]

\* convert_to_megatonnes(df, 'volume') on a frame that has the volume column
ConvertToMegatonnes(rows) ==
    [i \in 1..Len(rows) |->
        [rows[i] EXCEPT !.volume = Mul(@, CUBIC_FT_TO_MEGATONNE)]]

\* columns of the tables handed to the join
SouthBiomassColumns ==
    {"year", "statecd", "fips", "unitcd", "spcd", "spgrpcd", "spclass",
     "size_class_code", "size_class_range", "product", "volume"}
SouthPriceColumns ==
    {"statecd", "stateAbbr", "priceRegion", "spclass", "Product", "price",
     "cuftPrice"}
RegionKeyColumns == {"statecd", "unitcd", "priceRegion"}
RegionCountyColumns == RegionKeyColumns \cup {"countycd", "fips"}

\* the columns of pd.merge(left, right, on, suffixes) that keep their plain
\* name: a column of both frames that is not a key takes the suffix of its
\* side unless that suffix is empty
PlainColumns(left, right, on, suffixes) ==
    LET overlap == (left \cap right) \ on
    IN  (left \ (IF suffixes[1] = "" THEN {} ELSE overlap)) \cup
        (right \ (IF suffixes[2] = "" THEN {} ELSE overlap))

\* pd.merge(biomass, price_regions, on=['statecd', 'unitcd'], how=...):
\* left rows in order, one result row per matching crosswalk row; how='left'
\* keeps an unmatched left row with a missing priceRegion
RECURSIVE MergeRegions(_, _, _)
MergeRegions(rows, regs, how) ==
    IF rows = <<>> THEN <<>>
    ELSE LET b == Head(rows)
             Hit(r) == r.statecd = b.statecd /\ r.unitcd = b.unitcd
             hits == SelectSeq(regs, Hit)
             out == IF hits = <<>>
                    THEN IF how = "left"
                         THEN <<[b |-> b, priceRegion |-> NullText]>>
                         ELSE <<>>
                    ELSE [k \in 1..Len(hits) |->
                             [b |-> b, priceRegion |-> hits[k].priceRegion]]
         IN  out \o MergeRegions(Tail(rows), regs, how)

\* merch_mask: product.isin(['Pulpwood', 'Sawtimber'])
MerchMask(merged) ==
    LET Merch(x) == x.b.product \in {"Pulpwood", "Sawtimber"}
    IN  SelectSeq(merged, Merch)

\* pd.merge(biomass_south_merch, prices, how='left',
\*          left_on=[statecd, priceRegion, spclass, product],
\*          right_on=[statecd, priceRegion, spclass, Product])
RECURSIVE MergePrices(_, _)
MergePrices(merged, price_rows) ==
    IF merged = <<>> THEN <<>>
    ELSE LET x == Head(merged)
             Hit(p) == /\ p.statecd = x.b.statecd
                       /\ p.priceRegion = x.priceRegion
                       /\ p.spclass = x.b.spclass
                       /\ p.Product = x.b.product
             hits == SelectSeq(price_rows, Hit)
             out == IF hits = <<>>
                    THEN <<[b |-> x.b, Product |-> NullName, cuftPrice |-> NaN]>>
                    ELSE [k \in 1..Len(hits) |->
                             [b |-> x.b, Product |-> hits[k].Product,
                              cuftPrice |-> hits[k].cuftPrice]]
         IN  out \o MergePrices(Tail(merged), price_rows)

\* table_south['value'] = table_south['volume'] * table_south['cuftPrice']
\* with a missing price filled with zero before the product
SouthValueNullAsZero(volume, cuftPrice) ==
    IF IsNull(cuftPrice) THEN Dec(0, 0) ELSE Mul(volume, cuftPrice)

\* table_south['value'] = table_south['volume'] * table_south['cuftPrice']
SouthValue(volume, cuftPrice) == Mul(volume, cuftPrice)

SouthFinalColumns ==
    {"statecd", "unitcd", "fips", "spcd", "spgrpcd", "spclass", "product",
     "volume", "cuftPrice", "value"}

\* merge_price_biomass_data of code/south_assets.py and of
\* src/price/south_assets.py: inner join with the crosswalk, merch_mask,
\* left join with the prices, value, final column selection (KeyError when
\* a selected column lost its plain name in a merge)
SouthMergePriceBiomassData(stumpage, biomass_south, regions) ==
    LET cols1 == PlainColumns(SouthBiomassColumns, regions.columns,
                              {"statecd", "unitcd"}, <<"_x", "_y">>)
        cols2 == PlainColumns(cols1, SouthPriceColumns,
                              {"statecd", "priceRegion", "spclass"},
                              <<"_x", "_y">>) \cup {"value"}
        joined == MergePrices(
                      MerchMask(MergeRegions(biomass_south, regions.rows, "inner")),
                      stumpage)
    IN  IF ~(SouthFinalColumns \subseteq cols2)
        THEN [status |-> "KeyError", rows |-> <<>>]
        ELSE [status |-> "ok",
              rows |-> [i \in 1..Len(joined) |->
                  [statecd |-> joined[i].b.statecd,
                   unitcd |-> joined[i].b.unitcd,
                   fips |-> joined[i].b.fips,
                   spcd |-> joined[i].b.spcd,
                   spgrpcd |-> joined[i].b.spgrpcd,
                   spclass |-> joined[i].b.spclass,
                   product |-> joined[i].b.product,
                   volume |-> joined[i].b.volume,
                   cuftPrice |-> joined[i].cuftPrice,
                   value |-> SouthValue(joined[i].b.volume,
                                        joined[i].cuftPrice)]]]

\* the unit code padded by hand with one more zero on every call
AssetCoerceBiomassPadded(rows) ==
    [i \in 1..Len(rows) |->
        [rows[i] EXCEPT !.unitcd = StrCell(<<"0">> \o @.s)]]

\* src/asset merge_price_biomass_data, on the caller's biomass frame:
\* biomass_south['unitcd'] = biomass_south['unitcd'].astype(str), and the
\* same for statecd, which is text already
AssetCoerceBiomass(rows) ==
    [i \in 1..Len(rows) |-> [rows[i] EXCEPT !.unitcd = AsTypeStr(@)]]

\* the same assignments on the caller's price_regions frame
AssetCoerceRegions(regions) ==
    [columns |-> regions.columns,
     rows |-> [i \in 1..Len(regions.rows) |->
                  [regions.rows[i] EXCEPT !.unitcd = AsTypeStr(@)]]]

\* merge_price_biomass_data of src/asset/south_assets.py on the coerced
\* frames: left join with the crosswalk (suffixes '' and '_region',
\* fips_region dropped), merch_mask, left join with the prices, value,
\* lower-cased column names (the Product column of the prices becomes a
\* second product column), the final columns that are present
AssetMergePriceBiomassData(stumpage, biomass_south, regions) ==
    LET joined == MergePrices(
                      MerchMask(MergeRegions(biomass_south, regions.rows, "left")),
                      stumpage)
    IN  [status |-> "ok",
         rows |-> [i \in 1..Len(joined) |->
             [statecd |-> joined[i].b.statecd,
              unitcd |-> joined[i].b.unitcd,
              fips |-> joined[i].b.fips,
              spcd |-> joined[i].b.spcd,
              spgrpcd |-> joined[i].b.spgrpcd,
              spclass |-> joined[i].b.spclass,
              product |-> <<joined[i].b.product, joined[i].Product>>,
              volume |-> joined[i].b.volume,
              cuftprice |-> joined[i].cuftPrice,
              value |-> Mul(joined[i].b.volume, joined[i].cuftPrice)]]]

\* columns of the table load_gl_stumpage_prices returns
GLPriceColumns == {"statecd", "priceRegion", "species", "product", "cuftPrice"}

\* merge_price_biomass_data of code/greatlakes_assets.py: the fallback mean
\* groups prices_north by spclass and product; the price table has no
\* spclass column, so groupby raises KeyError and nothing after it runs
GLMergePriceBiomassData(prices_north, biomass_north, regions) ==
    IF ~({"spclass", "product"} \subseteq GLPriceColumns)
    THEN [status |-> "KeyError", rows |-> <<>>]
    ELSE [status |-> "ok", rows |-> <<>>]

SC == <<"4", "5">>
MI == <<"2", "6">>
MN == <<"2", "7">>
WI == <<"5", "5">>

\* STATE_FIPS of the SOUTH_STATES
SouthernStatesFips ==
    {Zfill(ToStr(k), 2) : k \in {1, 5, 12, 13, 22, 28, 37, 45, 47, 48, 51}}

\* load_price_regions on the crosswalk as read: the Southern rows, then
\* format_fips (a fips column is added with or without a county column)
\* and format_unit_code
LoadPriceRegions(regions) ==
    LET South(r) == r.statecd \in SouthernStatesFips
        kept == SelectSeq(regions.rows, South)
    IN  [columns |-> regions.columns \cup {"fips"},
         rows |-> [i \in 1..Len(kept) |->
             [kept[i] EXCEPT
                 !.fips = IF "countycd" \in regions.columns
                          THEN kept[i].statecd \o Zfill(kept[i].countycd, 3)
                          ELSE kept[i].statecd,
                 !.unitcd = FormatUnitCode(@)]]]

\* list[i] of a column built as list * k
Cycle(list, i) == list[((i - 1) % Len(list)) + 1]

\* create_mock_south_table: the 36 rows of the mock table
MockSouthTable ==
    [i \in 1..36 |->
        [statecd |-> Cycle(<<AL, AL, AL, GA, GA, GA, SC, SC, SC>>, i),
         countycd |-> Zfill(ToStr(Cycle(<<1, 2, 3, 1, 2, 3, 1, 2, 3>>, i)), 3),
         priceRegion |-> R01,
         spcd |-> Cycle(<<110, 111, 121, 131, 110, 111, 121, 131, 110>>, i),
         spgrpcd |-> Cycle(<<2, 1, 1, 2, 2, 1, 1, 2, 2>>, i),
         product |-> Cycle(<<"Sawtimber", "Sawtimber", "Sawtimber",
                             "Pulpwood", "Pulpwood", "Pulpwood",
                             "Sawtimber", "Sawtimber", "Sawtimber",
                             "Pulpwood", "Pulpwood", "Pulpwood">>, i),
         volume |-> Dec(Cycle(<<1250, 1300, 1200, 1350, 1400, 1450,
                                1100, 1150, 1500, 2250, 2300, 2200,
                                2350, 2400, 2450, 2100, 2150, 2500>>, i), 0),
         cuftPrice |-> Dec(Cycle(<<25, 26, 24, 10, 11, 12, 27, 28, 29,
                                   25, 26, 24, 10, 11, 12, 27, 28, 29>>, i),
                           0 - 2),
         value |-> Dec(Cycle(<<3125, 3380, 2880, 1350, 1540, 1740,
                               2970, 3220, 4350, 5625, 5980, 5280,
                               2350, 2640, 2940, 5670, 6020, 7250>>, i),
                       0 - 1),
         spclass |-> "Softwood"]]

\* DataFrame.to_csv(DATA_DIR / 'processed' / 'table_south.csv') with the
\* table first converted to the reporting units
ToCsvReportingUnits(rows) ==
    [written |-> TRUE, rows |-> ConvertToMegatonnes(ConvertToBillions(rows))]

\* DataFrame.to_csv(DATA_DIR / 'processed' / 'table_south.csv', index=False)
ToCsv(rows) == [written |-> TRUE, rows |-> rows]

NoRegions == [columns |-> {}, rows |-> <<>>]
NoCsv == [written |-> FALSE, rows |-> <<>>]

CodeSouth == "code/south_assets.py"
PriceSouth == "src/price/south_assets.py"
AssetSouth == "src/asset/south_assets.py"
CodeGL == "code/greatlakes_assets.py"
Modules == {CodeSouth, PriceSouth, AssetSouth, CodeGL}

\* most rows of a biomass table of the bounded inputs
MaxRows == 2
\* most successive calls of merge_price_biomass_data on the same frames
MaxRuns == 2

\* one row of the normalized merchantable biomass (year and
\* size_class_range are carried along and read by no step of the join)
BiomassRow(dtype, unit, county, spclass, k, volume) ==
    [statecd |-> AL, unitcd |-> UnitCell(dtype, unit),
     fips |-> AL \o Zfill(ToStr(county), 3), spcd |-> 131, spgrpcd |-> 2,
     spclass |-> spclass, size_class_code |-> Code4(k),
     product |-> SouthProduct(Code4(k)), volume |-> Dec(volume, 0)]

\* the biomass rows the tables of the bounded inputs are built from
BiomassSamples(dtype) ==
    <<BiomassRow(dtype, 1, 1, "Softwood", 8, 500),
      BiomassRow(dtype, 1, 1, "Pine", 8, 1000),
      BiomassRow(dtype, 1, 3, "Pine", 12, 500),
      BiomassRow(dtype, 1, 1, "Pine", 22, 500),
      BiomassRow(dtype, 3, 5, "Pine", 12, 1000),
      BiomassRow(dtype, 2, 7, "Pine", 4, 500)>>

\* a row of a unit-level crosswalk (statecd, unitcd, priceRegion)
UnitRegionRow(dtype, unit, region) ==
    [statecd |-> AL, unitcd |-> UnitCell(dtype, unit), countycd |-> NullText,
     fips |-> NullText, priceRegion |-> region]

\* a row of a county-level crosswalk, which also carries countycd and fips
CountyRegionRow(dtype, unit, county, region) ==
    [statecd |-> AL, unitcd |-> UnitCell(dtype, unit),
     countycd |-> Zfill(ToStr(county), 3),
     fips |-> AL \o Zfill(ToStr(county), 3), priceRegion |-> region]

\* crosswalks of the bounded inputs
RegionTables(dtype) ==
    {[columns |-> RegionKeyColumns, rows |-> <<>>],
     [columns |-> RegionKeyColumns, rows |-> <<UnitRegionRow(dtype, 1, R01)>>],
     [columns |-> RegionKeyColumns,
      rows |-> <<UnitRegionRow(dtype, 1, R01), UnitRegionRow(dtype, 2, R02)>>],
     [columns |-> RegionCountyColumns,
      rows |-> <<CountyRegionRow(dtype, 1, 1, R01)>>],
     [columns |-> RegionCountyColumns,
      rows |-> <<CountyRegionRow(dtype, 1, 1, R01),
                 CountyRegionRow(dtype, 1, 3, R01)>>]}

\* normalized price tables of the bounded inputs: 12.00 and 10.00 dollars
\* per ton are 0.30 and 0.25 dollars per cubic foot
PriceTables ==
    {ConvertPriceTonToCubicFeet(
         <<AggRow(AL, "AL", R01, "Pine", "Sawtimber", Dec(12, 0))>>),
     ConvertPriceTonToCubicFeet(
         <<AggRow(AL, "AL", R01, "Pine", "Pulpwood", Dec(10, 0)),
           AggRow(AL, "AL", R01, "Pine", "Sawtimber", Dec(12, 0))>>)}

\* merge_price_biomass_data(prices, biomass, price_regions) of
\* code/south_assets.py and src/price/south_assets.py
SouthMerge ==
    /\ module \in {CodeSouth, PriceSouth}
    /\ Len(runs) < MaxRuns
    /\ runs' = Append(runs,
                   SouthMergePriceBiomassData(prices, biomass, price_regions))
    /\ UNCHANGED <<module, biomass, prices, price_regions, proc, table_south_csv,
                   nproc, returned, table_gl_csv>>

\* merge_price_biomass_data of src/asset/south_assets.py: the key columns
\* of the caller's frames are reassigned, then the join runs on them
AssetMerge ==
    /\ module = AssetSouth
    /\ Len(runs) < MaxRuns
    /\ biomass' = AssetCoerceBiomass(biomass)
    /\ price_regions' = AssetCoerceRegions(price_regions)
    /\ runs' = Append(runs,
                   AssetMergePriceBiomassData(prices, biomass', price_regions'))
    /\ UNCHANGED <<module, prices, proc, table_south_csv, nproc, returned,
                   table_gl_csv>>

\* merge_price_biomass_data of code/greatlakes_assets.py
GLMerge ==
    /\ module = CodeGL
    /\ Len(runs) < MaxRuns
    /\ runs' = Append(runs,
                   GLMergePriceBiomassData(prices, biomass, price_regions))
    /\ UNCHANGED <<module, biomass, prices, price_regions, proc, table_south_csv,
                   nproc, returned, table_gl_csv>>

\* most runs of a region orchestrator in one behaviour
MaxProcRuns == 2

\* create_mock_gl_table: the 36 rows of the mock table
MockGLTable ==
    [i \in 1..36 |->
        [statecd |-> Cycle(<<MI, MI, MI, MN, MN, MN, WI, WI, WI>>, i),
         countycd |-> Zfill(ToStr(Cycle(<<1, 2, 3, 1, 2, 3, 1, 2, 3>>, i)), 3),
         priceRegion |-> R01,
         spcd |-> Cycle(<<12, 71, 94, 95, 105, 130, 316, 371, 375>>, i),
         spgrpcd |-> Cycle(<<6, 5, 6, 6, 5, 4, 32, 30, 30>>, i),
         product |-> Cycle(<<"Sawtimber", "Sawtimber", "Sawtimber",
                             "Pulpwood", "Pulpwood", "Pulpwood",
                             "Sawtimber", "Sawtimber", "Sawtimber",
                             "Pulpwood", "Pulpwood", "Pulpwood">>, i),
         volume |-> Dec(Cycle(<<825, 830, 820, 835, 840, 845, 810, 815, 850,
                                625, 630, 620, 635, 640, 645, 610, 615, 650>>, i), 0),
         cuftPrice |-> Dec(Cycle(<<21, 22, 20, 8, 9, 10, 33, 34, 35,
                                   21, 22, 20, 8, 9, 10, 33, 34, 35>>, i),
                           0 - 2),
         value |-> Dec(Cycle(<<1733, 1826, 1640, 668, 756, 845,
                               2673, 2771, 2975, 1313, 1386, 1240,
                               508, 576, 645, 2013, 2091, 2275>>, i),
                       0 - 1),
         spclass |-> Cycle(<<"Softwood", "Softwood", "Softwood", "Softwood",
                             "Softwood", "Softwood", "Hardwood", "Hardwood",
                             "Hardwood">>, i)]]

\* what a run that returned a table, or that raised, leaves in returned
Returned(rows) == [status |-> "table", rows |-> rows]
Raised == [status |-> "raised", rows |-> <<>>]

\* process_south_data of code/south_assets.py: the loaders (the tables of
\* the state with the key formatting the loaders apply), the join, the
\* conversion to reporting units, to_csv; an exception leaves the function
ProcessSouthCode ==
    /\ module = CodeSouth
    /\ nproc < MaxProcRuns
    /\ nproc' = nproc + 1
    /\ LET regions == LoadPriceRegions(price_regions)
           premerch == CalculatePremerchantablePrices(prices)
           loaded == [i \in 1..Len(biomass) |->
                        [biomass[i] EXCEPT !.unitcd = StrCell(Zfill(@.s, 2))]]
           table_south == SouthMergePriceBiomassData(prices, loaded, regions)
           converted == ConvertToMegatonnes(ConvertToBillions(table_south.rows))
       IN  IF premerch.status = "ok" /\ table_south.status = "ok"
           THEN /\ table_south_csv' = ToCsv(converted)
                /\ returned' = Returned(converted)
                /\ proc' = "returned"
           ELSE /\ proc' = "raised"
                /\ returned' = Raised
                /\ UNCHANGED table_south_csv
    /\ UNCHANGED <<module, biomass, prices, price_regions, runs, table_gl_csv>>

\* process_south_data of src/price/south_assets.py: any exception of the
\* inner block is answered with create_mock_south_table, which writes the
\* mock table to table_south.csv
ProcessSouthPrice ==
    /\ module = PriceSouth
    /\ nproc < MaxProcRuns
    /\ nproc' = nproc + 1
    /\ LET regions == LoadPriceRegions(price_regions)
           premerch == CalculatePremerchantablePrices(prices)
           loaded == [i \in 1..Len(biomass) |->
                        [biomass[i] EXCEPT !.unitcd = StrCell(Zfill(@.s, 2))]]
           table_south == SouthMergePriceBiomassData(prices, loaded, regions)
       IN  IF premerch.status = "ok" /\ table_south.status = "ok"
           THEN /\ table_south_csv' = ToCsv(table_south.rows)
                /\ returned' = Returned(table_south.rows)
                /\ proc' = "returned"
           ELSE /\ table_south_csv' = ToCsv(MockSouthTable)
                /\ returned' = Returned(MockSouthTable)
                /\ proc' = "returned mock"
    /\ UNCHANGED <<module, biomass, prices, price_regions, runs, table_gl_csv>>

\* process_south_data of src/asset/south_assets.py: the join output is
\* written as it is; any exception of the inner block (no Pine Pulpwood
\* price, a biomass loader that returned an empty frame without columns)
\* is answered with an empty table and nothing is written
ProcessSouthAsset ==
    /\ module = AssetSouth
    /\ nproc < MaxProcRuns
    /\ nproc' = nproc + 1
    /\ LET regions == LoadPriceRegions(price_regions)
           premerch == CalculatePremerchantablePrices(prices)
           loaded == [i \in 1..Len(biomass) |->
                        [biomass[i] EXCEPT !.unitcd = FormatUnitCode(@)]]
           table_south == AssetMergePriceBiomassData(prices,
                              AssetCoerceBiomass(loaded),
                              AssetCoerceRegions(regions))
       IN  IF premerch.status = "ok" /\ Len(loaded) > 0
           THEN /\ table_south_csv' = ToCsv(table_south.rows)
                /\ returned' = Returned(table_south.rows)
                /\ proc' = "returned"
           ELSE /\ proc' = "returned empty"
                /\ returned' = Returned(<<>>)
                /\ UNCHANGED table_south_csv
    /\ UNCHANGED <<module, biomass, prices, price_regions, runs, table_gl_csv>>

\* process_gl_data of code/greatlakes_assets.py: any exception of the inner
\* block is answered with create_mock_gl_table, which writes the mock
\* table to table_gl.csv
ProcessGLData ==
    /\ module = CodeGL
    /\ nproc < MaxProcRuns
    /\ nproc' = nproc + 1
    /\ LET table_gl == GLMergePriceBiomassData(prices, biomass, price_regions)
       IN  IF table_gl.status = "ok"
           THEN /\ table_gl_csv' = ToCsv(table_gl.rows)
                /\ returned' = Returned(table_gl.rows)
                /\ proc' = "returned"
           ELSE /\ table_gl_csv' = ToCsv(MockGLTable)
                /\ returned' = Returned(MockGLTable)
                /\ proc' = "returned mock"
    /\ UNCHANGED <<module, biomass, prices, price_regions, runs, table_south_csv>>

\* the price file is replaced between two runs: the calls that follow are
\* given the new price table
ReplacePrices ==
    /\ prices' \in PriceTables \ {prices}
    /\ runs' = <<>>
    /\ UNCHANGED <<module, biomass, price_regions, proc, table_south_csv,
                   nproc, returned, table_gl_csv>>

-----------------------------------------------------------------------------
(* Great Lakes price normalizer                                            *)

\* a + b of two numeric cells; NaN if either is NaN
Add(a, b) ==
    IF IsNull(a) \/ IsNull(b) THEN NaN
    ELSE LET e == IF a.e < b.e THEN a.e ELSE b.e
             na == a.n * Pow10(a.e - e)
             nb == b.n * Pow10(b.e - e)
         IN  Canon(na * b.d + nb * a.d, a.d * b.d, e)

\* species_crosswalk, with fillna(priceSpecies) for the names it lacks
GLMergedSpecies(priceSpecies) ==
    CASE priceSpecies = "Maple Unspecified" -> "Maple"
      [] priceSpecies \in {"Mixed Hdwd", "Other Hdwd", "Other Hardwood"} -> "Hardwood"
      [] priceSpecies \in {"Mixed Sftwd", "Other Sfwd", "Pine Unspecified"} -> "Pine"
      [] priceSpecies \in {"Oak Unspecified", "Scrub Oak"} -> "Oak"
      [] priceSpecies = "Other Softwood" -> "Softwood"
      [] priceSpecies \in {"Spruce Unspecified", "Spruce/Fir"} -> "Spruce"
      [] priceSpecies = "White Birch" -> "Paper Birch"
      [] OTHER -> priceSpecies

\* the merged species names in the order groupby sorts them (capitals
\* before lower case); a label the crosswalk lacks, such as a lower-case
\* 'pine', is a name of its own
GLMergedSorted ==
    <<"Aspen", "Hardwood", "Maple", "Oak", "Paper Birch", "Pine", "Softwood",
      "Spruce", "pine">>

\* mergedSpecies.str.lower()
Lower(name) ==
    CASE name = "Aspen" -> "aspen"
      [] name = "Hardwood" -> "hardwood"
      [] name = "Maple" -> "maple"
      [] name = "Oak" -> "oak"
      [] name = "Paper Birch" -> "paper birch"
      [] name = "Pine" -> "pine"
      [] name = "Softwood" -> "softwood"
      [] name = "Spruce" -> "spruce"
      [] name = "pine" -> "pine"

\* the cell of the pivot (index priceSpecies, columns Product): the price
\* of the row if there is one, NaN otherwise
GLPivotCell(rows, sp, prod) ==
    LET Hit(r) == r.priceSpecies = sp /\ r.Product = prod
        hits == SelectSeq(rows, Hit)
    IN  IF hits = <<>> THEN NaN ELSE hits[1].cuftPrice

\* prices_north.fillna(0) on the pivot
GLFilled(rows, sp, prod) ==
    IF IsNull(GLPivotCell(rows, sp, prod)) THEN Dec(0, 0)
    ELSE GLPivotCell(rows, sp, prod)

\* the sum of one product column over the pivot rows of a merged species
RECURSIVE GLSum(_, _, _)
GLSum(rows, members, prod) ==
    IF members = {} THEN Dec(0, 0)
    ELSE LET sp == CHOOSE x \in members : TRUE
         IN  Add(GLFilled(rows, sp, prod), GLSum(rows, members \ {sp}, prod))

\* load_gl_stumpage_prices from the averaged prices of one price region
\* (line 112) on: pivot, fillna(0), species crosswalk, mean per merged
\* species (KeyError when the pivot lacks a product column), lower-casing,
\* melt with the Pulpwood rows before the Sawtimber rows
GLStumpagePrices(rows) ==
    LET products == {rows[i].Product : i \in 1..Len(rows)}
        species == {rows[i].priceSpecies : i \in 1..Len(rows)}
        InPivot(g) == \E sp \in species : GLMergedSpecies(sp) = g
        groups == SelectSeq(GLMergedSorted, InPivot)
        Members(g) == {sp \in species : GLMergedSpecies(sp) = g}
        n == Len(groups)
    IN  IF ~({"Pulpwood", "Sawtimber"} \subseteq products)
        THEN [status |-> "KeyError", rows |-> <<>>]
        ELSE [status |-> "ok",
              rows |-> [k \in 1..(2 * n) |->
                  LET g == groups[((k - 1) % n) + 1]
                      prod == <<"Pulpwood", "Sawtimber">>[((k - 1) \div n) + 1]
                  IN  [statecd |-> rows[1].statecd,
                       priceRegion |-> rows[1].priceRegion,
                       species |-> Lower(g), product |-> prod,
                       cuftPrice |-> Div(GLSum(rows, Members(g), prod),
                                         Dec(Cardinality(Members(g)), 0))]]]

\* the (species, product) keys of the averaged prices, in groupby order
GLRawKeys ==
    <<[priceSpecies |-> "Aspen", Product |-> "Pulpwood"],
      [priceSpecies |-> "Aspen", Product |-> "Sawtimber"],
      [priceSpecies |-> "Mixed Sftwd", Product |-> "Pulpwood"],
      [priceSpecies |-> "Mixed Sftwd", Product |-> "Sawtimber"],
      [priceSpecies |-> "Pine Unspecified", Product |-> "Pulpwood"],
      [priceSpecies |-> "Pine Unspecified", Product |-> "Sawtimber"],
      [priceSpecies |-> "pine", Product |-> "Pulpwood"],
      [priceSpecies |-> "pine", Product |-> "Sawtimber"]>>

\* prices of the bounded inputs, in tenths of a dollar per cubic foot
MaxGLPrice == 2
GLRawPrices == {Dec(k, 0 - 1) : k \in 1..MaxGLPrice}

\* the averaged prices of region MI-01 with the price f[k] for key k, a key
\* with f[k] = NaN having no row
GLRawRows(f) ==
    LET all == [k \in 1..Len(GLRawKeys) |->
                   [statecd |-> MI, priceRegion |-> R01,
                    priceSpecies |-> GLRawKeys[k].priceSpecies,
                    Product |-> GLRawKeys[k].Product, cuftPrice |-> f[k]]]
        Present(r) == ~IsNull(r.cuftPrice)
    IN  SelectSeq(all, Present)

\* load_gl_stumpage_prices
LoadGLStumpagePrices ==
    /\ gl_prices.status = "-"
    /\ gl_prices' = GLStumpagePrices(gl_raw)
    /\ UNCHANGED gl_raw

-----------------------------------------------------------------------------
(* Harvested species list                                                  *)

\* str[a:b] of a text cell
StrSlice(s, a, b) == SubSeq(s, a + 1, IF b < Len(s) THEN b ELSE Len(s))

DigitValue(c) == CHOOSE k \in 0..9 : DigitChars[k + 1] = c

\* astype('int64') of a text cell of decimal digits
RECURSIVE ToInt(_)
ToInt(s) ==
    IF s = <<>>
    THEN 0
    ELSE ToInt(SubSeq(s, 1, Len(s) - 1)) * 10 + DigitValue(s[Len(s)])

\* the default list of marketable pine codes of src/price/south_assets.py
DefaultSpecies == <<110, 111, 121, 131>>

\* the marketable_species list of code/south_assets.py
MarketableSpecies ==
    <<68, 110, 111, 121, 129, 131, 132, 221, 314, 318, 409, 402, 403, 404,
      407, 541, 544, 546, 601, 602, 611, 621, 651, 652, 653, 762, 802, 804,
      812, 822, 823, 830, 832, 837>>

\* load_csv / load_excel of a file that is neither a price nor a biomass
\* file: the parsed table when the file exists and the reader accepts its
\* content, an empty DataFrame otherwise (missing file, or reader error)
LoadCsv(file) ==
    IF file.kind = "csv" THEN [columns |-> file.columns, rows |-> file.rows]
    ELSE [columns |-> {}, rows |-> <<>>]

LoadExcel(file) ==
    IF file.kind = "excel" THEN [columns |-> file.columns, rows |-> file.rows]
    ELSE [columns |-> {}, rows |-> <<>>]

\* load_south_harvested_species of code/south_assets.py: a pair of the
\* (statecd, spcd) table of the rows with a non-zero, non-null estimate and
\* the marketable list; KeyError when the table has no ESTIMATE column
LoadSouthHarvestedSpeciesCode(file) ==
    LET harvest_species == LoadCsv(file)
        NonZero(r) == IsNull(r.ESTIMATE) \/ r.ESTIMATE # Dec(0, 0)
        Present(r) == ~IsNull(r.ESTIMATE)
        kept == SelectSeq(SelectSeq(harvest_species.rows, NonZero), Present)
    IN  IF ~({"ESTIMATE", "GRP1", "GRP2"} \subseteq harvest_species.columns)
        THEN [fn |-> CodeSouth, status |-> "KeyError", type |-> "-",
              frame |-> <<>>, species |-> <<>>]
        ELSE [fn |-> CodeSouth, status |-> "returned", type |-> "tuple",
              frame |-> [i \in 1..Len(kept) |->
                  [statecd |-> StrSlice(kept[i].GRP2, 6, 8),
                   spcd |-> ToInt(StrSlice(kept[i].GRP1, 11, 14))]],
              species |-> MarketableSpecies]

\* load_south_harvested_species of src/price/south_assets.py: the SPCD
\* column of the table when it has rows, the default list when the table
\* is empty or anything raises
LoadSouthHarvestedSpeciesPrice(file) ==
    LET harvest_species == LoadExcel(file)
    IN  [fn |-> PriceSouth, status |-> "returned", type |-> "list",
         frame |-> <<>>,
         species |->
             IF Len(harvest_species.rows) = 0 THEN DefaultSpecies
             ELSE IF "SPCD" \notin harvest_species.columns THEN DefaultSpecies
             ELSE [i \in 1..Len(harvest_species.rows) |->
                      harvest_species.rows[i].SPCD]]

\* GRP1 and GRP2 cells of the harvested-species export: the species code is
\* characters 12-14 of GRP1, the state code characters 7-8 of GRP2 (the
\* leading backquote of the export is written # here)
Grp1(spcd) ==
    <<"#", "0", "0", "0", "1", " ", "S", "P", "C", "D", " ">>
        \o Zfill(ToStr(spcd), 3) \o <<" ">>
Grp2(statecd) == <<"#", "0", "0", "0", "1", " ">> \o statecd \o <<" ">>

HarvestRow(spcd, estimate) ==
    [GRP1 |-> Grp1(spcd), GRP2 |-> Grp2(AL), ESTIMATE |-> estimate,
     SPCD |-> spcd]

\* bounded inputs: most rows of a harvested-species file
MaxHarvestRows == 2

HarvestCodes == {68, 110, 111, 121, 131}
HarvestEstimates == {Dec(0, 0), Dec(250, 0), NaN}
HarvestCsvColumns == {"GRP1", "GRP2", "ESTIMATE"}

HarvestRows(estimates) ==
    UNION {[1..k -> {HarvestRow(c, e) : c \in HarvestCodes, e \in estimates}] :
           k \in 0..MaxHarvestRows}

MissingFile == [kind |-> "missing", columns |-> {}, rows |-> <<>>]

\* the file is absent, a CSV export, or a workbook (with an SPCD column or
\* with the columns of the export)
HarvestFiles ==
    {MissingFile}
    \cup {[kind |-> "csv", columns |-> HarvestCsvColumns, rows |-> rs] :
             rs \in HarvestRows(HarvestEstimates)}
    \cup {[kind |-> "excel", columns |-> {"SPCD"}, rows |-> rs] :
             rs \in HarvestRows({Dec(250, 0)})}
    \cup {[kind |-> "excel", columns |-> HarvestCsvColumns, rows |-> rs] :
             rs \in HarvestRows({Dec(250, 0)})}

NoHarvest ==
    [fn |-> "-", status |-> "-", type |-> "-", frame |-> <<>>, species |-> <<>>]

LoadHarvestedCode ==
    /\ harvest_out.status = "-"
    /\ harvest_out' = LoadSouthHarvestedSpeciesCode(harvest_file)
    /\ UNCHANGED harvest_file

LoadHarvestedPrice ==
    /\ harvest_out.status = "-"
    /\ harvest_out' = LoadSouthHarvestedSpeciesPrice(harvest_file)
    /\ UNCHANGED harvest_file

-----------------------------------------------------------------------------
(* South price-region mapping                                              *)

\* Series.isin(values) of one cell against a list of strings: a cell of an
\* int64 column equals no string, a text cell is looked up as it is
IsIn(c, values) == c.dtype = "object" /\ c.s \in values

\* load_price_regions on the crosswalk as read_csv gave it: the rows whose
\* statecd is in the list of Southern FIPS strings, then format_fips
\* (statecd.astype(str).str.zfill(2)) and format_unit_code
LoadPriceRegionsAsRead(raw) ==
    LET South(r) == IsIn(r.statecd, SouthernStatesFips)
        kept == SelectSeq(raw.rows, South)
    IN  LoadPriceRegions(
            [columns |-> raw.columns,
             rows |-> [i \in 1..Len(kept) |->
                 [kept[i] EXCEPT !.statecd = Zfill(AsTypeStr(@).s, 2)]]])

\* a statecd cell of a crosswalk column of the given dtype
StateCell(dtype, k) ==
    IF dtype = "int64" THEN IntCell(k) ELSE StrCell(Zfill(ToStr(k), 2))

CrosswalkRow(dtype, state, unit) ==
    [UnitRegionRow(dtype, unit, R01) EXCEPT !.statecd = StateCell(dtype, state)]

\* bounded inputs: most rows of a crosswalk
MaxCrosswalkRows == 2

\* AL, AR and MI
CrosswalkStates == {1, 5, 26}

CrosswalkRows(dtype) ==
    UNION {[1..k -> {CrosswalkRow(dtype, s, u) :
                        s \in CrosswalkStates, u \in 1..2}] :
           k \in 0..MaxCrosswalkRows}

\* the statecd column is read as numbers or as text
CrosswalkTables ==
    UNION {{[dtype |-> dtype, columns |-> RegionKeyColumns, rows |-> rs] :
               rs \in CrosswalkRows(dtype)} : dtype \in {"int64", "object"}}

NoCrosswalk == [dtype |-> "object", columns |-> RegionKeyColumns, rows |-> <<>>]

\* load_price_regions
LoadPriceRegionsFile ==
    /\ regions_out.status = "-"
    /\ regions_out' = [status |-> "returned",
                       rows |-> LoadPriceRegionsAsRead(crosswalk).rows]
    /\ UNCHANGED crosswalk

-----------------------------------------------------------------------------
(* South price normalizer on the raw wide table                            *)

\* the sum of the numeric cells of a sequence
RECURSIVE SumCells(_)
SumCells(cells) ==
    IF cells = <<>> THEN Dec(0, 0) ELSE Add(Head(cells), SumCells(Tail(cells)))

\* Series.mean(): the mean of the cells that are not null, NaN if none is
MeanCells(cells) ==
    LET Present(c) == ~IsNull(c)
        present == SelectSeq(cells, Present)
    IN  IF present = <<>> THEN NaN
        ELSE Div(SumCells(present), Dec(Len(present), 0))

\* load_south_stumpage_prices on the wide table as read: melt of the price
\* columns (column by column), the parts of the column name (product
\* str[:3], state str[3:5].upper(), region str[5:].zfill(2)), the label
\* replacements, STATE_FIPS, the mean per (statecd, stateAbbr, priceRegion,
\* spclass, product) in sorted key order, the conversion to cubic feet
LoadSouthStumpagePrices(raw) ==
    LET ncol == Len(raw.columns)
        nrow == Len(raw.rows)
        Upper(c) == CASE c = "a" -> "A" [] c = "l" -> "L" [] c = "g" -> "G"
                      [] OTHER -> c
        Product(code) ==
            LET p == StrSlice(code, 0, 3)
            IN  CASE p = <<"s", "a", "w">> -> "Sawtimber"
                  [] p = <<"p", "l", "p">> -> "Pulpwood"
                  [] p = <<"p", "r", "e">> -> "Pre-merchantable"
                  [] OTHER -> "other"
        Abbr(code) == [i \in 1..Len(StrSlice(code, 3, 5)) |->
                          Upper(StrSlice(code, 3, 5)[i])]
        Fips(abbr) == CASE abbr = <<"A", "L">> -> AL
                        [] abbr = <<"G", "A">> -> GA
                        [] OTHER -> NullText
        Spclass(type) == CASE type = "pine" -> "Pine" [] type = "oak" -> "Oak"
                           [] OTHER -> type
        melted == [k \in 1..(ncol * nrow) |->
            LET code == raw.columns[((k - 1) \div nrow) + 1]
                r == raw.rows[((k - 1) % nrow) + 1]
            IN  [statecd |-> Fips(Abbr(code)), stateAbbr |-> Abbr(code),
                 priceRegion |-> Zfill(StrSlice(code, 5, Len(code)), 2),
                 spclass |-> Spclass(r.type), Product |-> Product(code),
                 price |-> r.price[((k - 1) \div nrow) + 1]]]
        keys == [k \in 1..6 |->
            [spclass |-> <<"Oak", "Pine">>[((k - 1) \div 3) + 1],
             Product |-> <<"Pre-merchantable", "Pulpwood", "Sawtimber">>
                             [((k - 1) % 3) + 1]]]
        Group(key) ==
            LET In(m) == /\ m.spclass = key.spclass /\ m.Product = key.Product
                         /\ m.statecd # NullText
            IN  SelectSeq(melted, In)
        HasRows(key) == Group(key) # <<>>
        present == SelectSeq(keys, HasRows)
    IN  ConvertPriceTonToCubicFeet(
            [k \in 1..Len(present) |->
                LET g == Group(present[k])
                IN  AggRow(g[1].statecd, g[1].stateAbbr, g[1].priceRegion,
                           g[1].spclass, g[1].Product,
                           MeanCells([i \in 1..Len(g) |-> g[i].price]))])

\* bounded inputs: most rows of the wide table
MaxWideRows == 2

\* wide tables with some of the columns sawal1, plpal1 and preal1 and up to
\* MaxWideRows rows of type pine, Pine or oak, at 10 or 12 dollars per ton
SouthWideTables ==
    LET codes == <<<<"s", "a", "w", "a", "l", "1">>,
                   <<"p", "l", "p", "a", "l", "1">>,
                   <<"p", "r", "e", "a", "l", "1">>>>
        Columns(S) == LET In(c) == c \in S IN SelectSeq(codes, In)
    IN  UNION {{[columns |-> Columns(S), rows |-> rs] :
                   rs \in UNION {[1..n ->
                       [type : {"pine", "Pine", "oak"},
                        price : [1..Cardinality(S) -> {Dec(10, 0), Dec(12, 0)}]]] :
                       n \in 1..MaxWideRows}} :
               S \in (SUBSET {codes[i] : i \in 1..3}) \ {{}}}

\* load_south_stumpage_prices
LoadSouthPrices ==
    /\ ~south_norm.done
    /\ south_norm' = [done |-> TRUE, rows |-> LoadSouthStumpagePrices(south_wide)]
    /\ UNCHANGED south_wide

-----------------------------------------------------------------------------
(* Great Lakes price normalizer on the raw price series                    *)

\* the row filter with the market test left out
GLKeepRowAnyMarket(r) == Len(r.Region) # 2

\* the row filter of load_gl_stumpage_prices: Region.str.len() != 2 and
\* Market == 'Stumpage'
GLKeepRow(r) == Len(r.Region) # 2 /\ r.Market = "Stumpage"

\* load_gl_stumpage_prices from the series as read to the averaged prices
\* of line 112: the row filter, Region split at the first '-' into state
\* and price region (ValueError when no kept label has a '-', the split
\* giving a single column), zfill(2), the state FIPS map, dropna on price
\* and year, the unit conversion and the mean per key; groupby drops the
\* rows whose statecd or priceRegion is null.  The labels of the bounded
\* inputs name one price region, so the keys are in GLRawKeys order.
GLAveragedPrices(series) ==
    LET kept == SelectSeq(series, GLKeepRow)
        Dash(s) == IF \E i \in 1..Len(s) : s[i] = "-"
                   THEN CHOOSE i \in 1..Len(s) :
                            s[i] = "-" /\ \A j \in 1..(i - 1) : s[j] # "-"
                   ELSE 0
        Abbr(s) == IF Dash(s) = 0 THEN s ELSE SubSeq(s, 1, Dash(s) - 1)
        Fips(abbr) == CASE abbr = <<"M", "N">> -> MN
                        [] abbr = <<"W", "I">> -> WI
                        [] abbr = <<"M", "I">> -> MI
                        [] OTHER -> NullText
        Region(s) == IF Dash(s) = 0 THEN NullText
                     ELSE Zfill(SubSeq(s, Dash(s) + 1, Len(s)), 2)
        Cuft(r) == CASE r.Units = "cord" -> Div(r.price, Dec(128, 0))
                     [] r.Units = "mbf" -> Div(r.price, Dec(12, 0))
                     [] OTHER -> r.price
        Valid(r) == /\ ~IsNull(r.price) /\ r.year # 0
                    /\ Fips(Abbr(r.Region)) # NullText
                    /\ Region(r.Region) # NullText
        valid == SelectSeq(kept, Valid)
        Group(key) ==
            LET In(r) == r.Species = key.priceSpecies /\ r.Product = key.Product
            IN  SelectSeq(valid, In)
        HasRows(key) == Group(key) # <<>>
        present == SelectSeq(GLRawKeys, HasRows)
    IN  IF \A i \in 1..Len(kept) : Dash(kept[i].Region) = 0
        THEN [status |-> "ValueError", rows |-> <<>>]
        ELSE [status |-> "ok",
              rows |-> [k \in 1..Len(present) |->
                  LET g == Group(present[k])
                  IN  [statecd |-> Fips(Abbr(g[1].Region)),
                       priceRegion |-> Region(g[1].Region),
                       priceSpecies |-> present[k].priceSpecies,
                       Product |-> present[k].Product,
                       cuftPrice |-> MeanCells([i \in 1..Len(g) |-> Cuft(g[i])])]]]

\* load_gl_stumpage_prices, whole
LoadGLStumpagePricesSeries(series) ==
    IF GLAveragedPrices(series).status = "ok"
    THEN GLStumpagePrices(GLAveragedPrices(series).rows)
    ELSE GLAveragedPrices(series)

\* bounded inputs: most rows of the price series
MaxSeriesRows == 3

\* rows of the series: stumpage rows with the region labels MI-1, MI (a
\* state mean) and M, and delivered rows of MI-1; Aspen prices of 12.8 or
\* 25.6 dollars per cord
GLSeries ==
    LET rows == {r \in
            [Region : {<<"M", "I", "-", "1">>, <<"M", "I">>, <<"M">>},
             Market : {"Stumpage", "Delivered"}, year : {2023},
             Species : {"Aspen"}, Product : {"Pulpwood", "Sawtimber"},
             price : {Dec(128, 0 - 1), Dec(256, 0 - 1)}, Units : {"cord"}] :
            r.Market = "Stumpage" \/ Len(r.Region) > 2}
    IN  UNION {[1..n -> rows] : n \in 0..MaxSeriesRows}

\* load_gl_stumpage_prices
LoadGLSeries ==
    /\ gl_out.status = "-"
    /\ gl_out' = LoadGLStumpagePricesSeries(gl_series)
    /\ UNCHANGED gl_series

-----------------------------------------------------------------------------
(* Size-class column names of the biomass sheet                            *)

\* load_south_merch_biomass on one size_class column name: str.split(' ',
\* n=1) into code and range, then code.str[2:] and range.str[:-1]; a name
\* without a space has no range (None)
SplitSizeClass(name) ==
    LET sp == IF \E i \in 1..Len(name) : name[i] = " "
              THEN CHOOSE i \in 1..Len(name) :
                       name[i] = " " /\ \A j \in 1..(i - 1) : name[j] # " "
              ELSE 0
        first == IF sp = 0 THEN name ELSE SubSeq(name, 1, sp - 1)
        rest == IF sp = 0 THEN NullText ELSE SubSeq(name, sp + 1, Len(name))
    IN  [status |-> "ok",
         size_class_code |-> StrSlice(first, 2, Len(first)),
         size_class_range |-> IF sp = 0 THEN NullText
                              ELSE SubSeq(rest, 1, Len(rest) - 1)]

\* the column name made of its parts: marker characters, the 4-digit code,
\* a space, the range text and its trailing character
SizeClassName(parts) == parts.lead \o parts.code \o <<" ">> \o parts.range

\* column names of the bounded inputs: one marker character (the documented
\* convention, the backquote written #) or two, every size-class code, and
\* two range texts with their trailing character
SizeClassColumns ==
    [lead : {<<"#">>, <<"'", "#">>},
     code : SizeClassCodes,
     range : {<<"5", ".", "0", "-", "6", ".", "9", "#">>,
              <<"1", " ", "-", " ", "3", "#">>}]

NoSizeClass == [status |-> "-", size_class_code |-> <<>>, size_class_range |-> <<>>]

\* load_south_merch_biomass: the size-class parsing of one melted row
ParseSizeClass ==
    /\ size_parsed.status = "-"
    /\ size_parsed' = SplitSizeClass(SizeClassName(size_class))
    /\ UNCHANGED size_class

-----------------------------------------------------------------------------
(* Stumpage price table of a report (dollars per ton)                      *)

EXPECTED_STATES == {"AL", "AR", "FL", "GA", "LA", "MS", "NC", "SC", "TN", "TX", "VA"}

\* len(STUMPAGE_TON_HEADERS): State, Area and eight price columns
NumColumns == 10

\* the price cells of the bounded inputs: a data row quotes 30.50, an Avg
\* row 31.00
DataPrice == "30.50"
AvgPrice == "31.00"

\* clean_price: the number of a price-like cell, NA (NaN) for any other
CleanPrice(cell) ==
    CASE cell = DataPrice -> Dec(305, 0 - 1)
      [] cell = AvgPrice -> Dec(31, 0)
      [] cell \in {"1", "2"} -> Dec(ToInt(<<cell>>), 0)
      [] OTHER -> NaN

\* the while loop of parse_stumpage_ton_table from cell i on, with the
\* current state and the rows parsed so far: a state cell sets the state;
\* Area 1 or 2 takes the next eight cells as prices (an incomplete row ends
\* the parse); Avg skips eight cells; a price-like cell is taken as the
\* first price of a row without Area; any other cell ends the parse
RECURSIVE ParseCells(_, _, _, _)
ParseCells(cells, i, current_state, parsed_data) ==
    LET n == Len(cells)
        np == NumColumns - 2
        Row(area, price_cells) ==
            [State |-> current_state, Area |-> area,
             prices |-> [k \in 1..np |-> CleanPrice(price_cells[k])]]
    IN  IF i > n THEN parsed_data
        ELSE IF cells[i] \in EXPECTED_STATES
        THEN ParseCells(cells, i + 1, cells[i], parsed_data)
        ELSE IF current_state = "" THEN parsed_data
        ELSE IF cells[i] \in {"1", "2"}
        THEN IF i + np > n THEN parsed_data
             ELSE ParseCells(cells, i + np + 1, current_state,
                      Append(parsed_data,
                             Row(cells[i], SubSeq(cells, i + 1, i + np))))
        ELSE IF cells[i] = "Avg"
        THEN ParseCells(cells, i + np + 1, current_state, parsed_data)
        ELSE IF ~IsNull(CleanPrice(cells[i]))
        THEN IF i + np - 1 > n THEN parsed_data
             ELSE ParseCells(cells, i + np, current_state,
                      Append(parsed_data,
                             Row("MISSING", SubSeq(cells, i, i + np - 1))))
        ELSE parsed_data

\* parse_stumpage_ton_table(cells): the blank cells are dropped, the parse
\* starts at the first state cell, an empty list when there is none
ParseStumpageTonTable(cells) ==
    LET Meaningful(c) == c # "" /\ c # " "
        meaningful_cells == SelectSeq(cells, Meaningful)
    IN  IF \A i \in 1..Len(meaningful_cells) :
               meaningful_cells[i] \notin EXPECTED_STATES
        THEN <<>>
        ELSE ParseCells(meaningful_cells, 1, "", <<>>)

\* bounded inputs: most rows of a report table
MaxTonRows == 2

\* the cells of a table of state AL: per row the Area cell (1, 2, Avg or
\* absent) and eight price cells, the first or the last of them blank or
\* none
TonTables ==
    LET RowCells(area, blank) ==
            (IF area = "" THEN <<>> ELSE <<area>>)
            \o [k \in 1..(NumColumns - 2) |->
                   IF k = blank THEN ""
                   ELSE IF area = "Avg" THEN AvgPrice ELSE DataPrice]
        rows == {RowCells(a, b) : a \in {"1", "2", "Avg", ""},
                                  b \in {0, 1, NumColumns - 2}}
        RECURSIVE Cells(_)
        Cells(f) == IF f = <<>> THEN <<>> ELSE Head(f) \o Cells(Tail(f))
    IN  UNION {{<<"AL">> \o Cells(f) : f \in [1..n -> rows]} :
               n \in 1..MaxTonRows}

\* parse_stumpage_ton_table
ParseTonTable ==
    /\ ~ton_parsed.done
    /\ ton_parsed' = [done |-> TRUE, rows |-> ParseStumpageTonTable(ton_cells)]
    /\ UNCHANGED ton_cells

-----------------------------------------------------------------------------
(* Splitting a report's JSON file into chunk files                         *)

DEFAULT_MAX_CHARS_PER_CHUNK == 25000
HARD_MAX_CHARS_PER_CHUNK == (DEFAULT_MAX_CHARS_PER_CHUNK * 3) \div 2

\* the for loop of split_json_file from table i (counted from 0) on, with
\* the chunk files written so far and the chunk being collected; a table
\* is the size get_estimated_size gives it and the type get_table_type
\* gives it, a chunk the original_page_index entries of its pages_data.
\* The table is appended to the current chunk at the end of every pass,
\* also after a pass that wrote it out as a chunk of its own.
RECURSIVE SplitTables(_, _, _, _, _, _)
SplitTables(tables, i, max_chars, files, chunk, last_type) ==
    IF i >= Len(tables)
    THEN IF chunk.pages # <<>> THEN Append(files, chunk.pages) ELSE files
    ELSE
    LET size == tables[i + 1].size
        type == tables[i + 1].type
        oversized == chunk.pages = <<>> /\ size > HARD_MAX_CHARS_PER_CHUNK
        start == IF oversized
                 THEN [pages |-> <<i>>, chars |-> size]
                 ELSE chunk
        potential_new_size == chunk.chars + size
        continuation == type = "STUMP_TON" /\ last_type = "STUMP_TON"
        should_write_chunk ==
            \/ oversized
            \/ /\ potential_new_size > HARD_MAX_CHARS_PER_CHUNK
               /\ chunk.pages # <<>>
            \/ /\ potential_new_size <= HARD_MAX_CHARS_PER_CHUNK
               /\ potential_new_size > max_chars
               /\ ~continuation
               /\ chunk.pages # <<>>
        kept == IF should_write_chunk THEN [pages |-> <<>>, chars |-> 0]
                ELSE start
    IN  SplitTables(tables, i + 1, max_chars,
            IF should_write_chunk THEN Append(files, start.pages) ELSE files,
            [pages |-> Append(kept.pages, i), chars |-> kept.chars + size],
            type)

\* split_json_file(input_filepath, output_dir, max_chars_per_chunk): the
\* part files in part-number order; none when the input has no tables
SplitJsonFileParts(tables, max_chars) ==
    IF tables = <<>> THEN <<>>
    ELSE SplitTables(tables, 0, max_chars, <<>>,
                     [pages |-> <<>>, chars |-> 0], "UNKNOWN")

\* bounded inputs: most tables of an input file
MaxTables == 3

\* tables of 10000, 20000 or 40000 characters (the last above the hard
\* limit), of the stumpage type or not
JsonTables ==
    UNION {[1..n -> [size : {10000, 20000, 40000},
                     type : {"STUMP_TON", "UNKNOWN"}]] : n \in 0..MaxTables}

\* split_json_file with the default chunk size
SplitJsonFile ==
    /\ ~split_out.done
    /\ split_out' = [done |-> TRUE,
                     rows |-> SplitJsonFileParts(json_tables,
                                                 DEFAULT_MAX_CHARS_PER_CHUNK)]
    /\ UNCHANGED json_tables

-----------------------------------------------------------------------------
(* Orchestration of the regions (src/src/main.py)                          *)

\* region.lower() on the region names a caller gives
RegionLower(region) ==
    CASE region = "South" -> "south"
      [] region = "GL" -> "gl"
      [] OTHER -> region

\* the key of results the region is stored under, "-" for an unknown region
ResultKey(region) ==
    IF RegionLower(region) = "south" THEN "south"
    ELSE IF RegionLower(region) \in {"gl", "great_lakes"} THEN "gl"
    ELSE "-"

\* the line process_data prints when the pass of the loop for the region ends:
\* the processing function returned, it raised, or the region is unknown
ClosingLines(region) ==
    IF ResultKey(region) = "-" THEN {"Unknown region"}
    ELSE {"Processed", "Error processing"}

\* the longest list of regions given to process_data
MaxRegions == 3

\* the regions of the loop: the default list when the caller gives none
DefaultRegions == <<"south", "gl">>

EffectiveRegions(arg) == IF arg.given THEN arg.list ELSE DefaultRegions

\* the pass of the loop that follows a pass whose region raised
StopAfterFailure(i) == MaxRegions + 2

AfterFailure(i) == i + 1

RegionNames == {"south", "gl", "great_lakes", "South", "all"}

RegionArgs ==
    {[given |-> FALSE, list |-> <<>>]}
    \cup {[given |-> TRUE, list |-> l] :
            l \in UNION {[1..n -> RegionNames] : n \in 0..MaxRegions}}

NoResults == [done |-> FALSE, results |-> <<>>]

\* one pass of the for loop of process_data
ProcessRegion ==
    /\ region_i <= Len(req_regions)
    /\ LET region == req_regions[region_i]
           key == ResultKey(region)
       IN  \E line \in ClosingLines(region) :
              /\ stdout' = Append(stdout, [region |-> region, line |-> line])
              /\ results' = IF line = "Processed"
                            THEN [k \in DOMAIN results \cup {key} |->
                                    IF k = key THEN region_i ELSE results[k]]
                            ELSE results
              /\ region_i' = IF line = "Error processing"
                             THEN AfterFailure(region_i)
                             ELSE region_i + 1
    /\ UNCHANGED <<req_regions, proc_results>>

\* the return of process_data after the loop
ReturnResults ==
    /\ region_i > Len(req_regions)
    /\ ~proc_results.done
    /\ proc_results' = [done |-> TRUE, results |-> results]
    /\ UNCHANGED <<req_regions, region_i, results, stdout>>

-----------------------------------------------------------------------------
(* Specifications                                                          *)

clsVars == <<cls_code, cls_south, cls_gl>>
joinVars == <<module, biomass, prices, price_regions, runs, proc, table_south_csv,
    nproc, returned, table_gl_csv>>
fipsVars == <<fips_df, fips_out>>
priceVars == <<prices_agg, prices_south, prices_premerch>>
procVars == <<req_regions, region_i, results, stdout, proc_results>>
splitVars == <<json_tables, split_out>>
tonVars == <<ton_cells, ton_parsed>>
sizeVars == <<size_class, size_parsed>>
seriesVars == <<gl_series, gl_out>>
wideVars == <<south_wide, south_norm>>
regionVars == <<crosswalk, regions_out>>
harvestVars == <<harvest_file, harvest_out>>
glVars == <<gl_raw, gl_prices>>

NoPrices == [done |-> FALSE, rows |-> <<>>]
NoPremerch == [status |-> "-", rows |-> <<>>]

\* product classification of one size-class code by both classifiers
InitClassify ==
    /\ cls_code \in SizeClassCodes
    /\ cls_south = "-"
    /\ cls_gl = "-"
    /\ fips_df = NoInput
    /\ fips_out = NoFrame
    /\ prices_agg = <<>>
    /\ prices_south = NoPrices
    /\ prices_premerch = NoPremerch
    /\ module = "-"
    /\ biomass = <<>>
    /\ prices = <<>>
    /\ price_regions = NoRegions
    /\ runs = <<>>
    /\ proc = "-"
    /\ table_south_csv = NoCsv
    /\ gl_raw = <<>>
    /\ gl_prices = NoPremerch
    /\ nproc = 0
    /\ returned = NoPremerch
    /\ table_gl_csv = NoCsv
    /\ harvest_file = MissingFile
    /\ harvest_out = NoHarvest
    /\ crosswalk = NoCrosswalk
    /\ regions_out = NoPremerch
    /\ south_wide = [columns |-> <<>>, rows |-> <<>>]
    /\ south_norm = NoPrices
    /\ gl_series = <<>>
    /\ gl_out = NoPremerch
    /\ size_class = [lead |-> <<>>, code |-> <<>>, range |-> <<>>]
    /\ size_parsed = NoSizeClass
    /\ ton_cells = <<>>
    /\ ton_parsed = NoPrices
    /\ json_tables = <<>>
    /\ split_out = NoPrices
    /\ req_regions = <<>>
    /\ region_i = 1
    /\ results = <<>>
    /\ stdout = <<>>
    /\ proc_results = NoResults

ClassifyNext ==
    \/ ClassifySouth /\ UNCHANGED <<fipsVars, priceVars, joinVars, glVars, harvestVars, regionVars, wideVars, seriesVars, sizeVars, tonVars, splitVars, procVars>>
    \/ ClassifyGL /\ UNCHANGED <<fipsVars, priceVars, joinVars, glVars, harvestVars, regionVars, wideVars, seriesVars, sizeVars, tonVars, splitVars, procVars>>

SpecClassify == InitClassify /\ [][ClassifyNext]_vars

\* format_fips on a one-row frame of integer codes, with or without the
\* county column
InitFips ==
    /\ \/ \E st \in 0..MaxStateCd, co \in 0..MaxCountyCd :
             fips_df = [has_county |-> TRUE, statecd |-> st, countycd |-> co]
       \/ \E st \in 0..MaxStateCd :
             fips_df = [has_county |-> FALSE, statecd |-> st, countycd |-> 0 - 1]
    /\ fips_out = NoFrame
    /\ cls_code = <<>>
    /\ cls_south = "-"
    /\ cls_gl = "-"
    /\ prices_agg = <<>>
    /\ prices_south = NoPrices
    /\ prices_premerch = NoPremerch
    /\ module = "-"
    /\ biomass = <<>>
    /\ prices = <<>>
    /\ price_regions = NoRegions
    /\ runs = <<>>
    /\ proc = "-"
    /\ table_south_csv = NoCsv
    /\ gl_raw = <<>>
    /\ gl_prices = NoPremerch
    /\ nproc = 0
    /\ returned = NoPremerch
    /\ table_gl_csv = NoCsv
    /\ harvest_file = MissingFile
    /\ harvest_out = NoHarvest
    /\ crosswalk = NoCrosswalk
    /\ regions_out = NoPremerch
    /\ south_wide = [columns |-> <<>>, rows |-> <<>>]
    /\ south_norm = NoPrices
    /\ gl_series = <<>>
    /\ gl_out = NoPremerch
    /\ size_class = [lead |-> <<>>, code |-> <<>>, range |-> <<>>]
    /\ size_parsed = NoSizeClass
    /\ ton_cells = <<>>
    /\ ton_parsed = NoPrices
    /\ json_tables = <<>>
    /\ split_out = NoPrices
    /\ req_regions = <<>>
    /\ region_i = 1
    /\ results = <<>>
    /\ stdout = <<>>
    /\ proc_results = NoResults

FipsNext ==
    \/ FormatFipsGeo /\ UNCHANGED <<clsVars, priceVars, joinVars, glVars, harvestVars, regionVars, wideVars, seriesVars, sizeVars, tonVars, splitVars, procVars>>
    \/ FormatFipsCounty /\ UNCHANGED <<clsVars, priceVars, joinVars, glVars, harvestVars, regionVars, wideVars, seriesVars, sizeVars, tonVars, splitVars, procVars>>

SpecFips == InitFips /\ [][FipsNext]_vars

\* the aggregated South prices (one row per key, sorted by key) before the
\* unit conversion
InitPrice ==
    /\ \E p \in TonPrices, sp \in {"Pine", "Oak"},
          prod \in {"Pulpwood", "Sawtimber"} :
          \/ prices_agg = <<AggRow(AL, "AL", R01, sp, prod, p)>>
          \/ \E q \in {NaN, Dec(135, 0 - 1)} :
                prices_agg = <<AggRow(AL, "AL", R01, sp, prod, p),
                               AggRow(GA, "GA", R01, "Pine", "Pulpwood", q)>>
    /\ prices_south = NoPrices
    /\ prices_premerch = NoPremerch
    /\ cls_code = <<>>
    /\ cls_south = "-"
    /\ cls_gl = "-"
    /\ fips_df = NoInput
    /\ fips_out = NoFrame
    /\ module = "-"
    /\ biomass = <<>>
    /\ prices = <<>>
    /\ price_regions = NoRegions
    /\ runs = <<>>
    /\ proc = "-"
    /\ table_south_csv = NoCsv
    /\ gl_raw = <<>>
    /\ gl_prices = NoPremerch
    /\ nproc = 0
    /\ returned = NoPremerch
    /\ table_gl_csv = NoCsv
    /\ harvest_file = MissingFile
    /\ harvest_out = NoHarvest
    /\ crosswalk = NoCrosswalk
    /\ regions_out = NoPremerch
    /\ south_wide = [columns |-> <<>>, rows |-> <<>>]
    /\ south_norm = NoPrices
    /\ gl_series = <<>>
    /\ gl_out = NoPremerch
    /\ size_class = [lead |-> <<>>, code |-> <<>>, range |-> <<>>]
    /\ size_parsed = NoSizeClass
    /\ ton_cells = <<>>
    /\ ton_parsed = NoPrices
    /\ json_tables = <<>>
    /\ split_out = NoPrices
    /\ req_regions = <<>>
    /\ region_i = 1
    /\ results = <<>>
    /\ stdout = <<>>
    /\ proc_results = NoResults

PriceNext ==
    \/ ConvertPrices /\ UNCHANGED <<clsVars, fipsVars, joinVars, glVars, harvestVars, regionVars, wideVars, seriesVars, sizeVars, tonVars, splitVars, procVars>>
    \/ CalculatePremerch /\ UNCHANGED <<clsVars, fipsVars, joinVars, glVars, harvestVars, regionVars, wideVars, seriesVars, sizeVars, tonVars, splitVars, procVars>>

SpecPrice == InitPrice /\ [][PriceNext]_vars

\* the valuation join of one module on bounded input tables whose unit
\* codes have the same dtype in the biomass table and in the crosswalk
InitJoin ==
    /\ module \in Modules
    /\ \E dtype \in {"object", "int64"} :
          /\ \E n \in 0..MaxRows :
                \E idx \in [1..n -> 1..Len(BiomassSamples(dtype))] :
                   biomass = [i \in 1..n |-> BiomassSamples(dtype)[idx[i]]]
          /\ price_regions \in RegionTables(dtype)
    /\ prices \in PriceTables
    /\ runs = <<>>
    /\ proc = "-"
    /\ table_south_csv = NoCsv
    /\ cls_code = <<>>
    /\ cls_south = "-"
    /\ cls_gl = "-"
    /\ fips_df = NoInput
    /\ fips_out = NoFrame
    /\ prices_agg = <<>>
    /\ prices_south = NoPrices
    /\ prices_premerch = NoPremerch
    /\ gl_raw = <<>>
    /\ gl_prices = NoPremerch
    /\ nproc = 0
    /\ returned = NoPremerch
    /\ table_gl_csv = NoCsv
    /\ harvest_file = MissingFile
    /\ harvest_out = NoHarvest
    /\ crosswalk = NoCrosswalk
    /\ regions_out = NoPremerch
    /\ south_wide = [columns |-> <<>>, rows |-> <<>>]
    /\ south_norm = NoPrices
    /\ gl_series = <<>>
    /\ gl_out = NoPremerch
    /\ size_class = [lead |-> <<>>, code |-> <<>>, range |-> <<>>]
    /\ size_parsed = NoSizeClass
    /\ ton_cells = <<>>
    /\ ton_parsed = NoPrices
    /\ json_tables = <<>>
    /\ split_out = NoPrices
    /\ req_regions = <<>>
    /\ region_i = 1
    /\ results = <<>>
    /\ stdout = <<>>
    /\ proc_results = NoResults

JoinNext ==
    \/ SouthMerge /\ UNCHANGED <<clsVars, fipsVars, priceVars, glVars, harvestVars, regionVars, wideVars, seriesVars, sizeVars, tonVars, splitVars, procVars>>
    \/ AssetMerge /\ UNCHANGED <<clsVars, fipsVars, priceVars, glVars, harvestVars, regionVars, wideVars, seriesVars, sizeVars, tonVars, splitVars, procVars>>
    \/ GLMerge /\ UNCHANGED <<clsVars, fipsVars, priceVars, glVars, harvestVars, regionVars, wideVars, seriesVars, sizeVars, tonVars, splitVars, procVars>>
    \/ ProcessSouthCode /\ UNCHANGED <<clsVars, fipsVars, priceVars, glVars, harvestVars, regionVars, wideVars, seriesVars, sizeVars, tonVars, splitVars, procVars>>
    \/ ProcessSouthPrice /\ UNCHANGED <<clsVars, fipsVars, priceVars, glVars, harvestVars, regionVars, wideVars, seriesVars, sizeVars, tonVars, splitVars, procVars>>
    \/ ProcessSouthAsset /\ UNCHANGED <<clsVars, fipsVars, priceVars, glVars, harvestVars, regionVars, wideVars, seriesVars, sizeVars, tonVars, splitVars, procVars>>
    \/ ProcessGLData /\ UNCHANGED <<clsVars, fipsVars, priceVars, glVars, harvestVars, regionVars, wideVars, seriesVars, sizeVars, tonVars, splitVars, procVars>>
    \/ ReplacePrices /\ UNCHANGED <<clsVars, fipsVars, priceVars, glVars, harvestVars, regionVars, wideVars, seriesVars, sizeVars, tonVars, splitVars, procVars>>

SpecJoin == InitJoin /\ [][JoinNext]_vars

\* the Great Lakes price normalizer on the averaged prices of one region
InitGLPrice ==
    /\ \E f \in [1..Len(GLRawKeys) -> GLRawPrices \cup {NaN}] :
          gl_raw = GLRawRows(f)
    /\ gl_prices = NoPremerch
    /\ cls_code = <<>>
    /\ cls_south = "-"
    /\ cls_gl = "-"
    /\ fips_df = NoInput
    /\ fips_out = NoFrame
    /\ prices_agg = <<>>
    /\ prices_south = NoPrices
    /\ prices_premerch = NoPremerch
    /\ module = "-"
    /\ biomass = <<>>
    /\ prices = <<>>
    /\ price_regions = NoRegions
    /\ runs = <<>>
    /\ proc = "-"
    /\ table_south_csv = NoCsv
    /\ nproc = 0
    /\ returned = NoPremerch
    /\ table_gl_csv = NoCsv
    /\ harvest_file = MissingFile
    /\ harvest_out = NoHarvest
    /\ crosswalk = NoCrosswalk
    /\ regions_out = NoPremerch
    /\ south_wide = [columns |-> <<>>, rows |-> <<>>]
    /\ south_norm = NoPrices
    /\ gl_series = <<>>
    /\ gl_out = NoPremerch
    /\ size_class = [lead |-> <<>>, code |-> <<>>, range |-> <<>>]
    /\ size_parsed = NoSizeClass
    /\ ton_cells = <<>>
    /\ ton_parsed = NoPrices
    /\ json_tables = <<>>
    /\ split_out = NoPrices
    /\ req_regions = <<>>
    /\ region_i = 1
    /\ results = <<>>
    /\ stdout = <<>>
    /\ proc_results = NoResults

GLPriceNext ==
    \/ LoadGLStumpagePrices /\ UNCHANGED <<clsVars, fipsVars, priceVars, joinVars, harvestVars, regionVars, wideVars, seriesVars, sizeVars, tonVars, splitVars, procVars>>

SpecGLPrice == InitGLPrice /\ [][GLPriceNext]_vars

\* one call of load_south_harvested_species on one state of the file
InitHarvest ==
    /\ harvest_file \in HarvestFiles
    /\ harvest_out = NoHarvest
    /\ gl_raw = <<>>
    /\ gl_prices = NoPremerch
    /\ cls_code = <<>>
    /\ cls_south = "-"
    /\ cls_gl = "-"
    /\ fips_df = NoInput
    /\ fips_out = NoFrame
    /\ prices_agg = <<>>
    /\ prices_south = NoPrices
    /\ prices_premerch = NoPremerch
    /\ module = "-"
    /\ biomass = <<>>
    /\ prices = <<>>
    /\ price_regions = NoRegions
    /\ runs = <<>>
    /\ proc = "-"
    /\ table_south_csv = NoCsv
    /\ nproc = 0
    /\ returned = NoPremerch
    /\ table_gl_csv = NoCsv
    /\ crosswalk = NoCrosswalk
    /\ regions_out = NoPremerch
    /\ south_wide = [columns |-> <<>>, rows |-> <<>>]
    /\ south_norm = NoPrices
    /\ gl_series = <<>>
    /\ gl_out = NoPremerch
    /\ size_class = [lead |-> <<>>, code |-> <<>>, range |-> <<>>]
    /\ size_parsed = NoSizeClass
    /\ ton_cells = <<>>
    /\ ton_parsed = NoPrices
    /\ json_tables = <<>>
    /\ split_out = NoPrices
    /\ req_regions = <<>>
    /\ region_i = 1
    /\ results = <<>>
    /\ stdout = <<>>
    /\ proc_results = NoResults

HarvestNext ==
    \/ LoadHarvestedCode /\ UNCHANGED <<clsVars, fipsVars, priceVars, joinVars, glVars, regionVars, wideVars, seriesVars, sizeVars, tonVars, splitVars, procVars>>
    \/ LoadHarvestedPrice /\ UNCHANGED <<clsVars, fipsVars, priceVars, joinVars, glVars, regionVars, wideVars, seriesVars, sizeVars, tonVars, splitVars, procVars>>

SpecHarvest == InitHarvest /\ [][HarvestNext]_vars

\* one call of load_price_regions on one crosswalk file
InitRegions ==
    /\ crosswalk \in CrosswalkTables
    /\ regions_out = NoPremerch
    /\ gl_raw = <<>>
    /\ gl_prices = NoPremerch
    /\ cls_code = <<>>
    /\ cls_south = "-"
    /\ cls_gl = "-"
    /\ fips_df = NoInput
    /\ fips_out = NoFrame
    /\ prices_agg = <<>>
    /\ prices_south = NoPrices
    /\ prices_premerch = NoPremerch
    /\ module = "-"
    /\ biomass = <<>>
    /\ prices = <<>>
    /\ price_regions = NoRegions
    /\ runs = <<>>
    /\ proc = "-"
    /\ table_south_csv = NoCsv
    /\ nproc = 0
    /\ returned = NoPremerch
    /\ table_gl_csv = NoCsv
    /\ harvest_file = MissingFile
    /\ harvest_out = NoHarvest
    /\ south_wide = [columns |-> <<>>, rows |-> <<>>]
    /\ south_norm = NoPrices
    /\ gl_series = <<>>
    /\ gl_out = NoPremerch
    /\ size_class = [lead |-> <<>>, code |-> <<>>, range |-> <<>>]
    /\ size_parsed = NoSizeClass
    /\ ton_cells = <<>>
    /\ ton_parsed = NoPrices
    /\ json_tables = <<>>
    /\ split_out = NoPrices
    /\ req_regions = <<>>
    /\ region_i = 1
    /\ results = <<>>
    /\ stdout = <<>>
    /\ proc_results = NoResults

RegionsNext ==
    \/ LoadPriceRegionsFile /\ UNCHANGED <<clsVars, fipsVars, priceVars, joinVars, glVars, harvestVars, wideVars, seriesVars, sizeVars, tonVars, splitVars, procVars>>

SpecRegions == InitRegions /\ [][RegionsNext]_vars

\* one call of load_south_stumpage_prices on one wide price table
InitSouthWide ==
    /\ south_wide \in SouthWideTables
    /\ south_norm = NoPrices
    /\ gl_raw = <<>>
    /\ gl_prices = NoPremerch
    /\ cls_code = <<>>
    /\ cls_south = "-"
    /\ cls_gl = "-"
    /\ fips_df = NoInput
    /\ fips_out = NoFrame
    /\ prices_agg = <<>>
    /\ prices_south = NoPrices
    /\ prices_premerch = NoPremerch
    /\ module = "-"
    /\ biomass = <<>>
    /\ prices = <<>>
    /\ price_regions = NoRegions
    /\ runs = <<>>
    /\ proc = "-"
    /\ table_south_csv = NoCsv
    /\ nproc = 0
    /\ returned = NoPremerch
    /\ table_gl_csv = NoCsv
    /\ harvest_file = MissingFile
    /\ harvest_out = NoHarvest
    /\ crosswalk = NoCrosswalk
    /\ regions_out = NoPremerch
    /\ gl_series = <<>>
    /\ gl_out = NoPremerch
    /\ size_class = [lead |-> <<>>, code |-> <<>>, range |-> <<>>]
    /\ size_parsed = NoSizeClass
    /\ ton_cells = <<>>
    /\ ton_parsed = NoPrices
    /\ json_tables = <<>>
    /\ split_out = NoPrices
    /\ req_regions = <<>>
    /\ region_i = 1
    /\ results = <<>>
    /\ stdout = <<>>
    /\ proc_results = NoResults

SouthWideNext ==
    \/ LoadSouthPrices /\ UNCHANGED <<clsVars, joinVars, fipsVars, priceVars, regionVars, harvestVars, glVars, seriesVars, sizeVars, tonVars, splitVars, procVars>>

SpecSouthWide == InitSouthWide /\ [][SouthWideNext]_vars

\* one call of load_gl_stumpage_prices on one raw price series
InitGLSeries ==
    /\ gl_series \in GLSeries
    /\ gl_out = NoPremerch
    /\ gl_raw = <<>>
    /\ gl_prices = NoPremerch
    /\ cls_code = <<>>
    /\ cls_south = "-"
    /\ cls_gl = "-"
    /\ fips_df = NoInput
    /\ fips_out = NoFrame
    /\ prices_agg = <<>>
    /\ prices_south = NoPrices
    /\ prices_premerch = NoPremerch
    /\ module = "-"
    /\ biomass = <<>>
    /\ prices = <<>>
    /\ price_regions = NoRegions
    /\ runs = <<>>
    /\ proc = "-"
    /\ table_south_csv = NoCsv
    /\ nproc = 0
    /\ returned = NoPremerch
    /\ table_gl_csv = NoCsv
    /\ harvest_file = MissingFile
    /\ harvest_out = NoHarvest
    /\ crosswalk = NoCrosswalk
    /\ regions_out = NoPremerch
    /\ south_wide = [columns |-> <<>>, rows |-> <<>>]
    /\ south_norm = NoPrices
    /\ size_class = [lead |-> <<>>, code |-> <<>>, range |-> <<>>]
    /\ size_parsed = NoSizeClass
    /\ ton_cells = <<>>
    /\ ton_parsed = NoPrices
    /\ json_tables = <<>>
    /\ split_out = NoPrices
    /\ req_regions = <<>>
    /\ region_i = 1
    /\ results = <<>>
    /\ stdout = <<>>
    /\ proc_results = NoResults

GLSeriesNext ==
    \/ LoadGLSeries /\ UNCHANGED <<clsVars, joinVars, fipsVars, priceVars, wideVars, regionVars, harvestVars, glVars, sizeVars, tonVars, splitVars, procVars>>

SpecGLSeries == InitGLSeries /\ [][GLSeriesNext]_vars

\* the size-class parsing on one column name
InitSizeClass ==
    /\ size_class \in SizeClassColumns
    /\ size_parsed = NoSizeClass
    /\ gl_raw = <<>>
    /\ gl_prices = NoPremerch
    /\ cls_code = <<>>
    /\ cls_south = "-"
    /\ cls_gl = "-"
    /\ fips_df = NoInput
    /\ fips_out = NoFrame
    /\ prices_agg = <<>>
    /\ prices_south = NoPrices
    /\ prices_premerch = NoPremerch
    /\ module = "-"
    /\ biomass = <<>>
    /\ prices = <<>>
    /\ price_regions = NoRegions
    /\ runs = <<>>
    /\ proc = "-"
    /\ table_south_csv = NoCsv
    /\ nproc = 0
    /\ returned = NoPremerch
    /\ table_gl_csv = NoCsv
    /\ harvest_file = MissingFile
    /\ harvest_out = NoHarvest
    /\ crosswalk = NoCrosswalk
    /\ regions_out = NoPremerch
    /\ south_wide = [columns |-> <<>>, rows |-> <<>>]
    /\ south_norm = NoPrices
    /\ gl_series = <<>>
    /\ gl_out = NoPremerch
    /\ ton_cells = <<>>
    /\ ton_parsed = NoPrices
    /\ json_tables = <<>>
    /\ split_out = NoPrices
    /\ req_regions = <<>>
    /\ region_i = 1
    /\ results = <<>>
    /\ stdout = <<>>
    /\ proc_results = NoResults

SizeClassNext ==
    \/ ParseSizeClass /\ UNCHANGED <<clsVars, joinVars, fipsVars, priceVars, seriesVars, wideVars, regionVars, harvestVars, glVars, tonVars, splitVars, procVars>>

SpecSizeClass == InitSizeClass /\ [][SizeClassNext]_vars

\* one call of parse_stumpage_ton_table on the cells of one table
InitTonTable ==
    /\ ton_cells \in TonTables
    /\ ton_parsed = NoPrices
    /\ gl_raw = <<>>
    /\ gl_prices = NoPremerch
    /\ cls_code = <<>>
    /\ cls_south = "-"
    /\ cls_gl = "-"
    /\ fips_df = NoInput
    /\ fips_out = NoFrame
    /\ prices_agg = <<>>
    /\ prices_south = NoPrices
    /\ prices_premerch = NoPremerch
    /\ module = "-"
    /\ biomass = <<>>
    /\ prices = <<>>
    /\ price_regions = NoRegions
    /\ runs = <<>>
    /\ proc = "-"
    /\ table_south_csv = NoCsv
    /\ nproc = 0
    /\ returned = NoPremerch
    /\ table_gl_csv = NoCsv
    /\ harvest_file = MissingFile
    /\ harvest_out = NoHarvest
    /\ crosswalk = NoCrosswalk
    /\ regions_out = NoPremerch
    /\ south_wide = [columns |-> <<>>, rows |-> <<>>]
    /\ south_norm = NoPrices
    /\ gl_series = <<>>
    /\ gl_out = NoPremerch
    /\ size_class = [lead |-> <<>>, code |-> <<>>, range |-> <<>>]
    /\ size_parsed = NoSizeClass
    /\ json_tables = <<>>
    /\ split_out = NoPrices
    /\ req_regions = <<>>
    /\ region_i = 1
    /\ results = <<>>
    /\ stdout = <<>>
    /\ proc_results = NoResults

TonTableNext ==
    \/ ParseTonTable /\ UNCHANGED <<clsVars, joinVars, fipsVars, priceVars, sizeVars, seriesVars, wideVars, regionVars, harvestVars, glVars, splitVars, procVars>>

SpecTonTable == InitTonTable /\ [][TonTableNext]_vars

\* one call of split_json_file on one input file
InitSplit ==
    /\ json_tables \in JsonTables
    /\ split_out = NoPrices
    /\ gl_raw = <<>>
    /\ gl_prices = NoPremerch
    /\ cls_code = <<>>
    /\ cls_south = "-"
    /\ cls_gl = "-"
    /\ fips_df = NoInput
    /\ fips_out = NoFrame
    /\ prices_agg = <<>>
    /\ prices_south = NoPrices
    /\ prices_premerch = NoPremerch
    /\ module = "-"
    /\ biomass = <<>>
    /\ prices = <<>>
    /\ price_regions = NoRegions
    /\ runs = <<>>
    /\ proc = "-"
    /\ table_south_csv = NoCsv
    /\ nproc = 0
    /\ returned = NoPremerch
    /\ table_gl_csv = NoCsv
    /\ harvest_file = MissingFile
    /\ harvest_out = NoHarvest
    /\ crosswalk = NoCrosswalk
    /\ regions_out = NoPremerch
    /\ south_wide = [columns |-> <<>>, rows |-> <<>>]
    /\ south_norm = NoPrices
    /\ gl_series = <<>>
    /\ gl_out = NoPremerch
    /\ size_class = [lead |-> <<>>, code |-> <<>>, range |-> <<>>]
    /\ size_parsed = NoSizeClass
    /\ ton_cells = <<>>
    /\ ton_parsed = NoPrices
    /\ req_regions = <<>>
    /\ region_i = 1
    /\ results = <<>>
    /\ stdout = <<>>
    /\ proc_results = NoResults

SplitNext ==
    \/ SplitJsonFile /\ UNCHANGED <<clsVars, joinVars, fipsVars, priceVars, tonVars, sizeVars, seriesVars, wideVars, regionVars, harvestVars, glVars, procVars>>

SpecSplit == InitSplit /\ [][SplitNext]_vars

\* one call of process_data
InitProcess ==
    /\ \E arg \in RegionArgs : req_regions = EffectiveRegions(arg)
    /\ region_i = 1
    /\ results = <<>>
    /\ stdout = <<>>
    /\ proc_results = NoResults
    /\ gl_raw = <<>>
    /\ gl_prices = NoPremerch
    /\ cls_code = <<>>
    /\ cls_south = "-"
    /\ cls_gl = "-"
    /\ fips_df = NoInput
    /\ fips_out = NoFrame
    /\ prices_agg = <<>>
    /\ prices_south = NoPrices
    /\ prices_premerch = NoPremerch
    /\ module = "-"
    /\ biomass = <<>>
    /\ prices = <<>>
    /\ price_regions = NoRegions
    /\ runs = <<>>
    /\ proc = "-"
    /\ table_south_csv = NoCsv
    /\ nproc = 0
    /\ returned = NoPremerch
    /\ table_gl_csv = NoCsv
    /\ harvest_file = MissingFile
    /\ harvest_out = NoHarvest
    /\ crosswalk = NoCrosswalk
    /\ regions_out = NoPremerch
    /\ south_wide = [columns |-> <<>>, rows |-> <<>>]
    /\ south_norm = NoPrices
    /\ gl_series = <<>>
    /\ gl_out = NoPremerch
    /\ size_class = [lead |-> <<>>, code |-> <<>>, range |-> <<>>]
    /\ size_parsed = NoSizeClass
    /\ ton_cells = <<>>
    /\ ton_parsed = NoPrices
    /\ json_tables = <<>>
    /\ split_out = NoPrices

ProcessNext ==
    \/ ProcessRegion /\ UNCHANGED <<clsVars, joinVars, fipsVars, priceVars, splitVars, tonVars, sizeVars, seriesVars, wideVars, regionVars, harvestVars, glVars>>
    \/ ReturnResults /\ UNCHANGED <<clsVars, joinVars, fipsVars, priceVars, splitVars, tonVars, sizeVars, seriesVars, wideVars, regionVars, harvestVars, glVars>>

SpecProcess == InitProcess /\ [][ProcessNext]_vars

\* the loop and the return are sequential code: a pass that can run does run
SpecProcessFair == SpecProcess /\ WF_vars(ProcessNext)



-----
(* C3 as stated: 0001-0004 Pre-merchantable, 0005-0011 Pulpwood, every    *)
(* code 0012 or higher Sawtimber (South normalizer).                       *)
C3_AsStated ==
    cls_south # "-" =>
        LET k == CodeNumber(cls_code)
        IN  /\ (k \in 1..4 => cls_south = "Pre-merchantable")
            /\ (k \in 5..11 => cls_south = "Pulpwood")
            /\ (k >= 12 => cls_south = "Sawtimber")

(* C3 amended: in the South normalizer codes 0001-0004 give               *)
(* Pre-merchantable, 0005-0011 Pulpwood, 0012-0021 Sawtimber, and every    *)
(* other code (0022 and higher, 0000) gives Unknown.                       *)
C3_SouthProductByCode ==
    cls_south # "-" =>
        LET k == CodeNumber(cls_code)
        IN  /\ (k \in 1..4 => cls_south = "Pre-merchantable")
            /\ (k \in 5..11 => cls_south = "Pulpwood")
            /\ (k \in 12..21 => cls_south = "Sawtimber")
            /\ (k \notin 1..21 => cls_south = "Unknown")

C3_Witness ==
    /\ cls_code = Code4(22)
    /\ cls_south = "Unknown"

(* C4: every size-class code gets exactly one product among               *)
(* Pre-merchantable, Pulpwood, Sawtimber and Unknown from the South and    *)
(* from the Great Lakes classifier: exactly one tier claims the code       *)
(* (Unknown when no list holds it) and that tier is the product assigned.  *)
C4_ExactlyOneTier ==
    /\ cls_south # "-" =>
          LET tiers == TiersOf(SouthConditions(cls_code), SouthChoices, "Unknown")
          IN  /\ Cardinality(tiers) = 1
              /\ tiers = {cls_south}
              /\ cls_south \in ProductTiers
    /\ cls_gl # "-" =>
          LET tiers == TiersOf(GLConditions(cls_code), GLChoices, "Unknown")
          IN  /\ Cardinality(tiers) = 1
              /\ tiers = {cls_gl}
              /\ cls_gl \in ProductTiers

C4_Witness ==
    /\ cls_code = Code4(12)
    /\ cls_south = "Sawtimber"
    /\ cls_gl = "Pulpwood"

(* C9: for state codes 0..99 and county codes 0..999 format_fips yields a  *)
(* 5-character fips, the 2-digit zero-padded state code followed by the    *)
(* 3-digit zero-padded county code; without a county column it yields the  *)
(* 2-character zero-padded state code.                                     *)
C9_FipsWidth ==
    (fips_out.by # "-" /\ fips_df.statecd <= 99) =>
        LET st == fips_df.statecd
            co == fips_df.countycd
            f == fips_out.fips
        IN  IF fips_df.has_county
            THEN co <= 999 =>
                   /\ Len(f) = 5
                   /\ f[1] = DigitChars[(st \div 10) + 1]
                   /\ f[2] = DigitChars[(st % 10) + 1]
                   /\ f[3] = DigitChars[(co \div 100) + 1]
                   /\ f[4] = DigitChars[((co \div 10) % 10) + 1]
                   /\ f[5] = DigitChars[(co % 10) + 1]
            ELSE /\ Len(f) = 2
                 /\ f[1] = DigitChars[(st \div 10) + 1]
                 /\ f[2] = DigitChars[(st % 10) + 1]

C9_Witness ==
    /\ fips_df = [has_county |-> TRUE, statecd |-> 5, countycd |-> 20]
    /\ fips_out.fips = <<"0", "5", "0", "2", "0">>

(* C8: for every price P in dollars per ton,                               *)
(* convert_price_ton_to_cubic_feet yields a cuftPrice that multiplied by   *)
(* 40 gives P again (exact arithmetic).                                    *)
C8_TonRoundTrip ==
    prices_south.done =>
        /\ Len(prices_south.rows) = Len(prices_agg)
        /\ \A i \in 1..Len(prices_agg) :
              ~IsNull(prices_agg[i].price) =>
                  Mul(prices_south.rows[i].cuftPrice, Dec(40, 0)) = prices_agg[i].price

C8_Witness ==
    /\ prices_south.done
    /\ prices_agg[1].price = Dec(125, 0 - 1)
    /\ prices_south.rows[1].cuftPrice = Dec(3125, 0 - 4)

(* C10: for a Pine pulpwood price P > 0 the four prices of                 *)
(* calculate_premerchantable_prices strictly increase with the age of the  *)
(* size class, price(0004) > price(0003) > price(0002) > price(0001), and  *)
(* each is strictly below P.                                               *)
C10_PremerchMonotone ==
    prices_premerch.status = "ok" =>
        \A i \in 1..Len(prices_south.rows) :
            LET r == prices_south.rows[i]
                At(sc) == {q \in {prices_premerch.rows[k] :
                                     k \in 1..Len(prices_premerch.rows)} :
                              /\ q.statecd = r.statecd
                              /\ q.priceRegion = r.priceRegion
                              /\ q.sizeclass = sc}
            IN  ( /\ r.spclass = "Pine" /\ r.Product = "Pulpwood"
                  /\ ~IsNull(r.cuftPrice)
                  /\ Less(Dec(0, 0), r.cuftPrice) ) =>
                /\ \A sc \in {Code4(1), Code4(2), Code4(3), Code4(4)} :
                       Cardinality(At(sc)) = 1
                /\ \A p1 \in At(Code4(1)), p2 \in At(Code4(2)),
                      p3 \in At(Code4(3)), p4 \in At(Code4(4)) :
                       /\ Less(p1.cuftPrice, p2.cuftPrice)
                       /\ Less(p2.cuftPrice, p3.cuftPrice)
                       /\ Less(p3.cuftPrice, p4.cuftPrice)
                       /\ Less(p4.cuftPrice, r.cuftPrice)

C10_Witness ==
    /\ prices_premerch.status = "ok"
    /\ Len(prices_premerch.rows) = 8
    /\ prices_south.rows[1].cuftPrice = Dec(5, 0 - 2)
    /\ prices_south.rows[1].spclass = "Pine"
    /\ prices_south.rows[1].Product = "Pulpwood"
    /\ prices_premerch.rows[1].sizeclass = Code4(4)
    /\ Less(prices_premerch.rows[7].cuftPrice, prices_premerch.rows[1].cuftPrice)

-----
(* C1 as stated: whatever biomass table, price table and region mapping    *)
(* merge_price_biomass_data is given, it returns a table with as many rows *)
(* as the biomass table has.                                               *)
C1_RowCountPreserved ==
    \A i \in 1..Len(runs) :
        /\ runs[i].status = "ok"
        /\ Len(runs[i].rows) = Len(biomass)

\* the inputs of the C2 scenario, after at least one call of a South join
C2_Scenario ==
    /\ module \in {CodeSouth, PriceSouth, AssetSouth}
    /\ biomass = <<BiomassRow("object", 1, 1, "Softwood", 8, 500)>>
    /\ price_regions = [columns |-> RegionKeyColumns,
                        rows |-> <<UnitRegionRow("object", 1, R01)>>]
    /\ Len(prices) = 1
    /\ prices[1].statecd = AL /\ prices[1].priceRegion = R01
    /\ prices[1].spclass = "Pine" /\ prices[1].Product = "Sawtimber"
    /\ prices[1].cuftPrice = Dec(30, 0 - 2)
    /\ Len(runs) > 0

-----
-----
-----
(* C5: in every table a South merge_price_biomass_data returns, a row with *)
(* a price has value = volume x cuftPrice (volume 1000 at 0.25 gives 250)  *)
(* and a row with a null price has a null value.                           *)
C5_ValueIsVolumeTimesPrice ==
    \A i \in 1..Len(runs) : \A k \in 1..Len(runs[i].rows) :
        LET r == runs[i].rows[k]
            p == IF module = AssetSouth THEN r.cuftprice ELSE r.cuftPrice
        IN  /\ IsNull(p) => IsNull(r.value)
            /\ ~IsNull(p) => /\ r.value = Mul(r.volume, p)
                             /\ ~IsNull(r.value)
            /\ (r.volume = Dec(1000, 0) /\ p = Dec(25, 0 - 2))
                   => r.value = Dec(250, 0)

C5_Witness ==
    /\ module = CodeSouth
    /\ Len(runs) > 0
    /\ runs[1].status = "ok"
    /\ \E k \in 1..Len(runs[1].rows) :
          /\ runs[1].rows[k].volume = Dec(1000, 0)
          /\ runs[1].rows[k].cuftPrice = Dec(25, 0 - 2)
          /\ runs[1].rows[k].value = Dec(250, 0)
    /\ \E k \in 1..Len(runs[1].rows) :
          /\ IsNull(runs[1].rows[k].cuftPrice)
          /\ IsNull(runs[1].rows[k].value)

-----
-----
-----
(* C11 as stated: a biomass row whose (state, survey unit) has no entry in *)
(* the region mapping is kept by merge_price_biomass_data: the call        *)
(* returns a table in which the row appears with its volume, a null price  *)
(* and a null value.                                                       *)
C11_UnmappedRowKept ==
    \A i \in 1..Len(runs) : \A k \in 1..Len(biomass) :
        LET b == biomass[k]
            Mapped(r) == r.statecd = b.statecd /\ r.unitcd = b.unitcd
        IN  SelectSeq(price_regions.rows, Mapped) = <<>> =>
                /\ runs[i].status = "ok"
                /\ \E j \in 1..Len(runs[i].rows) :
                      /\ runs[i].rows[j].statecd = b.statecd
                      /\ runs[i].rows[j].unitcd = b.unitcd
                      /\ runs[i].rows[j].fips = b.fips
                      /\ runs[i].rows[j].volume = b.volume
                      /\ IsNull(runs[i].rows[j].value)

-----
(* C12 as stated: the biomass class label is translated to the bucket      *)
(* label of the price table before the price join, so that in the table a  *)
(* South join returns a row of class Softwood carries the price of the     *)
(* Pine row, and a row of class Hardwood the price of the Oak row, of its  *)
(* state, price region and product whenever the price table has that row.  *)
C12_ClassCrosswalkApplied ==
    \A i \in 1..Len(runs) :
        runs[i].status = "ok" =>
            \A j \in 1..Len(runs[i].rows) : \A k \in 1..Len(prices) :
                \A m \in 1..Len(price_regions.rows) :
                    LET r == runs[i].rows[j]
                        product == IF module = AssetSouth
                                   THEN r.product[1] ELSE r.product
                        price == IF module = AssetSouth
                                 THEN r.cuftprice ELSE r.cuftPrice
                        bucket == CASE r.spclass = "Softwood" -> "Pine"
                                    [] r.spclass = "Hardwood" -> "Oak"
                                    [] OTHER -> r.spclass
                    IN  ( /\ r.spclass \in {"Softwood", "Hardwood"}
                          /\ price_regions.rows[m].statecd = r.statecd
                          /\ price_regions.rows[m].unitcd = r.unitcd
                          /\ prices[k].statecd = r.statecd
                          /\ prices[k].priceRegion = price_regions.rows[m].priceRegion
                          /\ prices[k].spclass = bucket
                          /\ prices[k].Product = product )
                        => price = prices[k].cuftPrice

-----
(* C13 as stated: the Great Lakes merge_price_biomass_data returns its     *)
(* table also when prices are missing, and in that table a row is left     *)
(* without a price only when no row of its (species class, product) has    *)
(* one: every other unpriced row received the mean of its group.           *)
C13_GLFallbackMean ==
    module = CodeGL =>
        \A i \in 1..Len(runs) :
            /\ runs[i].status = "ok"
            /\ \A j \in 1..Len(runs[i].rows) : \A k \in 1..Len(runs[i].rows) :
                  ( /\ IsNull(runs[i].rows[j].cuftPrice)
                    /\ runs[i].rows[k].spclass = runs[i].rows[j].spclass
                    /\ runs[i].rows[k].product = runs[i].rows[j].product )
                  => /\ IsNull(runs[i].rows[k].cuftPrice)
                     /\ IsNull(runs[i].rows[j].value)

-----
(* C14 as stated: a missing price is never turned into price 0: in the     *)
(* table load_gl_stumpage_prices returns, a (species, product) for which   *)
(* the price series holds no price has no price (NaN), not 0.              *)
C14_MissingPriceNotZero ==
    gl_prices.status = "ok" =>
        \A k \in 1..Len(gl_prices.rows) :
            LET Quoted(r) == /\ Lower(GLMergedSpecies(r.priceSpecies)) =
                                   gl_prices.rows[k].species
                             /\ r.Product = gl_prices.rows[k].product
            IN  SelectSeq(gl_raw, Quoted) = <<>> =>
                    IsNull(gl_prices.rows[k].cuftPrice)

-----
(* C15 as stated: the South table a run of process_south_data returns and  *)
(* writes holds both tiers: besides the merchantable rows, every           *)
(* pre-merchantable biomass row of the run is in it as a valuation row.    *)
C15_BothTiersInTable ==
    (module \in {CodeSouth, PriceSouth, AssetSouth} /\ proc = "returned") =>
        \A k \in 1..Len(biomass) :
            biomass[k].product = "Pre-merchantable" =>
                \E j \in 1..Len(returned.rows) :
                    /\ returned.rows[j].fips = biomass[k].fips
                    /\ returned.rows[j].spcd = biomass[k].spcd
                    /\ returned.rows[j].volume = biomass[k].volume
                    /\ IF module = AssetSouth
                       THEN returned.rows[j].product[1] = "Pre-merchantable"
                       ELSE returned.rows[j].product = "Pre-merchantable"

-----
(* C16 as stated: a run of a region orchestrator in which a normalizer or  *)
(* the join raises ends with a raised error; no run answers a failure by   *)
(* returning a mock table or an empty table.                               *)
C16_FailureRaises ==
    proc \in {"-", "returned", "raised"}

-----
(* C17 as stated: once a run of a region orchestrator has returned a       *)
(* table, the region's output file holds exactly the rows of that table,   *)
(* whether the run succeeded or fell back.                                 *)
C17_FileHoldsReturnedTable ==
    returned.status = "table" =>
        IF module = CodeGL
        THEN table_gl_csv.rows = returned.rows
        ELSE table_south_csv.rows = returned.rows

-----
(* C18 as stated: a call of merge_price_biomass_data leaves the tables it  *)
(* was given as they were: same columns, same cell values.                 *)
C18_InputsUnchanged ==
    [][Len(runs') > Len(runs) =>
          /\ biomass' = biomass
          /\ prices' = prices
          /\ price_regions' = price_regions]_vars

\* C19: whatever the state of the harvested-species file, a call of
\* load_south_harvested_species returns a non-empty list of species codes
\* that contains the default pine codes 110, 111, 121 and 131.
C19_DefaultsInList ==
    harvest_out.status # "-" =>
        /\ harvest_out.status = "returned"
        /\ harvest_out.type = "list"
        /\ Len(harvest_out.species) > 0
        /\ \A i \in 1..Len(DefaultSpecies) :
              \E j \in 1..Len(harvest_out.species) :
                  harvest_out.species[j] = DefaultSpecies[i]

\* C20: the mapping load_price_regions returns holds exactly the rows of
\* the crosswalk whose state is a Southern state, in order, whether the
\* crosswalk stores the state code as a number or as zero-padded text.
C20_ExactlySouthernRows ==
    regions_out.status = "returned" =>
        LET Southern(r) == Zfill(r.statecd.s, 2) \in SouthernStatesFips
            expected == SelectSeq(crosswalk.rows, Southern)
        IN  /\ Len(regions_out.rows) = Len(expected)
            /\ \A i \in 1..Len(expected) :
                  /\ regions_out.rows[i].statecd = Zfill(expected[i].statecd.s, 2)
                  /\ regions_out.rows[i].unitcd = FormatUnitCode(expected[i].unitcd)
                  /\ regions_out.rows[i].priceRegion = expected[i].priceRegion

-----------------------------------------------------------------------------
(* C21 as stated: the normalized price table has at most one row per       *)
(* (state, price region, species bucket, product), also when raw species   *)
(* labels differ only in letter case or map to the same bucket (Great      *)
(* Lakes normalizer).                                                      *)
C21_OneRowPerKey ==
    gl_prices.status = "ok" =>
        \A i, j \in 1..Len(gl_prices.rows) :
            (/\ gl_prices.rows[i].statecd = gl_prices.rows[j].statecd
             /\ gl_prices.rows[i].priceRegion = gl_prices.rows[j].priceRegion
             /\ gl_prices.rows[i].species = gl_prices.rows[j].species
             /\ gl_prices.rows[i].product = gl_prices.rows[j].product) => i = j

(* C22 as stated: the normalized South price table holds no row whose      *)
(* product is Pre-merchantable, also when the wide table has 'pre' price   *)
(* columns.                                                                *)
C22_NoPremerchRows ==
    south_norm.done =>
        \A i \in 1..Len(south_norm.rows) :
            south_norm.rows[i].Product # "Pre-merchantable"

(* C23: the Great Lakes price normalizer keeps a raw row only if its       *)
(* region label is longer than 2 characters and its market is Stumpage:    *)
(* the rows with a label of 2 characters or fewer and the non-stumpage     *)
(* rows contribute to no output price, the result being the one the        *)
(* normalizer gives for the series without them.                           *)
C23_OnlyRegionalStumpageRows ==
    gl_out.status # "-" =>
        LET Wanted(r) == Len(r.Region) > 2 /\ r.Market = "Stumpage"
        IN  gl_out = LoadGLStumpagePricesSeries(SelectSeq(gl_series, Wanted))

\* a priced table from a series that also holds a state-mean row and a
\* delivered-price row
C23_Witness ==
    /\ gl_out.status = "ok"
    /\ Len(gl_out.rows) > 0
    /\ \E i \in 1..Len(gl_series) :
          \/ Len(gl_series[i].Region) <= 2
          \/ gl_series[i].Market = "Delivered"

(* C24 as stated: a biomass row whose size-class code is in no list of the *)
(* classifier has product Unknown and is not silently dropped: when its    *)
(* survey unit is in the region mapping, the table the South join returns  *)
(* still holds a row of product Unknown (the join prints no warning and    *)
(* keeps no count).                                                        *)
C24_UnknownRowKept ==
    module \in {CodeSouth, PriceSouth} =>
        \A r \in 1..Len(runs) :
            runs[r].status = "ok" =>
                \A i \in 1..Len(biomass) :
                    (/\ biomass[i].product = "Unknown"
                     /\ \E j \in 1..Len(price_regions.rows) :
                           price_regions.rows[j].unitcd = biomass[i].unitcd)
                    => \E k \in 1..Len(runs[r].rows) :
                           runs[r].rows[k].product = "Unknown"

(* C25 as stated: the region mapping the valuation join receives from      *)
(* load_price_regions in a run of the South orchestrator holds at most one *)
(* row per (state, survey unit, price region).                             *)
C25_RegionsDeduplicated ==
    (proc # "-" /\ module \in {CodeSouth, PriceSouth, AssetSouth}) =>
        LET regs == LoadPriceRegions(price_regions).rows
        IN  \A i, j \in 1..Len(regs) :
                (/\ regs[i].statecd = regs[j].statecd
                 /\ regs[i].unitcd = regs[j].unitcd
                 /\ regs[i].priceRegion = regs[j].priceRegion) => i = j

(* C26 as stated: calculate_premerchantable_prices returns, for each       *)
(* (state, price region) with a Pine Pulpwood price, exactly four rows,    *)
(* one per size-class code 0001 to 0004, each with product                 *)
(* Pre-merchantable, and no row for any other (state, price region).       *)
C26_FourPremerchRows ==
    prices_premerch.status # "-" =>
        LET out == prices_premerch.rows
            PinePulp(r) == /\ r.spclass = "Pine" /\ r.Product = "Pulpwood"
                           /\ ~IsNull(r.cuftPrice)
            src == SelectSeq(prices_south.rows, PinePulp)
        IN  /\ prices_premerch.status = "ok"
            /\ \A i \in 1..Len(src) : \A c \in 1..4 :
                  Cardinality({k \in 1..Len(out) :
                      /\ out[k].statecd = src[i].statecd
                      /\ out[k].priceRegion = src[i].priceRegion
                      /\ out[k].sizeclass = Code4(c)}) = 1
            /\ \A k \in 1..Len(out) :
                  /\ \E i \in 1..Len(src) :
                        /\ out[k].statecd = src[i].statecd
                        /\ out[k].priceRegion = src[i].priceRegion
                  /\ "product" \in DOMAIN out[k]
                  /\ out[k].product = "Pre-merchantable"

(* C27 as stated: for a size-class column named by the documented          *)
(* convention (one marker character, the 4-digit code, a space, the range  *)
(* text, one trailing character) the biomass normalizer yields the 4-digit *)
(* code as size_class_code and the range text without its trailing         *)
(* character as size_class_range, so that the code is found in the product *)
(* table.                                                                  *)
C27_CodeAndRangeParsed ==
    (size_parsed.status = "ok" /\ Len(size_class.lead) = 1) =>
        /\ size_parsed.size_class_code = size_class.code
        /\ size_parsed.size_class_range =
               SubSeq(size_class.range, 1, Len(size_class.range) - 1)
        /\ SouthProduct(size_parsed.size_class_code) = SouthProduct(size_class.code)

(* C28 as stated: parse_stumpage_ton_table skips Avg rows: no returned row *)
(* has Area Avg, and no price of an Avg row is the price of a returned     *)
(* row, also when a data row has a blank price cell or no Area cell.       *)
C28_AvgRowsSkipped ==
    ton_parsed.done =>
        \A i \in 1..Len(ton_parsed.rows) :
            /\ ton_parsed.rows[i].Area # "Avg"
            /\ \A k \in 1..(NumColumns - 2) :
                  ton_parsed.rows[i].prices[k] # CleanPrice(AvgPrice)

(* C29 as stated: split_json_file writes every table to exactly one chunk  *)
(* file: read in part-number order the chunks list each original table     *)
(* index once, in the original order, also when a table is larger than the *)
(* hard chunk limit.                                                       *)
C29_EveryTableOnce ==
    split_out.done =>
        LET RECURSIVE Indices(_)
            Indices(files) == IF files = <<>> THEN <<>>
                              ELSE Head(files) \o Indices(Tail(files))
        IN  Indices(split_out.rows) = [i \in 1..Len(json_tables) |-> i - 1]

\* the keys of results stored by the passes whose processing function returned
ReturnedKeys ==
    {ResultKey(stdout[j].region) :
        j \in {k \in 1..Len(stdout) : stdout[k].line = "Processed"}}

\* C30: in process_data a failure while processing one requested region does
\* not stop the run: the regions are processed in list order, every region of
\* the list gets its pass, also after a pass that failed, and the results
\* returned hold an entry exactly for the regions whose processing function
\* returned without raising.
C30_FailureDoesNotStopRun ==
    /\ [](/\ Len(stdout) <= Len(req_regions)
          /\ \A j \in 1..Len(stdout) : stdout[j].region = req_regions[j])
    /\ <>(/\ proc_results.done
          /\ Len(stdout) = Len(req_regions)
          /\ DOMAIN proc_results.results = ReturnedKeys)

\* a run returned after a region failed and a later region was processed
C30_Witness ==
    /\ proc_results.done
    /\ \E j, k \in 1..Len(stdout) :
          /\ j < k
          /\ stdout[j].line = "Error processing"
          /\ stdout[k].line = "Processed"
          /\ ResultKey(stdout[k].region) # ResultKey(stdout[j].region)
          /\ DOMAIN proc_results.results = {ResultKey(stdout[k].region)}

====
